---- MODULE Spec2Model ----
(***************************************************************************)
(* GameOn capture engine: the event store's action-code table              *)
(* (src/src/database/db_manager.py), the session orchestrator              *)
(* (src/src/session/session_manager.py) with the start/stop contracts of   *)
(* its three capture components, and the video pipeline's bounded frame    *)
(* queue (src/src/capture/video_capture.py).                               *)
(*                                                                         *)
(* The module holds several specifications over one set of variables:      *)
(*   SpecDb       sequential calls on the event store                      *)
(*   SpecDbConc   get_or_create_action_code run by concurrent threads,     *)
(*                one SQL statement per step                               *)
(*   Spec         the session orchestrator and the sessions table          *)
(*   SpecEvents   a recording whose components start, with input events    *)
(*   SpecVideo    the capture task and the writer task of one VideoCapture *)
(***************************************************************************)
EXTENDS Integers, Sequences, FiniteSets, TLC

\* An Optional[...] value of the source: None is the empty tuple.
NULL == <<>>
Some(x) == <<x>>

\* ------------------------------------------------------------------------
\* Bounds of the model
\* ------------------------------------------------------------------------
NumManagers == 2
NumThreads == 2
\* calls one thread makes
MaxCalls == 2

Managers == 1..NumManagers
Threads == 1..NumThreads

\* device classes and raw control identifiers the calls draw from
InputDevices == {"keyboard", "mouse"}
RawInputs == {"w", "a"}

VARIABLES
    action_codes,       \* the action_codes table, rows in insertion order
    action_code_cache,  \* per DatabaseManager: cache_key -> row id
    ret_log,            \* (input_device, raw_input) -> codes returned so far
    db_threads          \* concurrent callers of get_or_create_action_code

dbVars == <<action_codes, action_code_cache, ret_log, db_threads>>

\* ------------------------------------------------------------------------
\* Event store: action codes
\* ------------------------------------------------------------------------
SetMax(S) == CHOOSE x \in S : \A y \in S : y <= x

\* f"{input_device}:{raw_input}".  The device classes contain no ':', so the
\* string determines the pair: the key is the pair itself.
CacheKeyDeviceOnly(input_device, raw_input) == <<input_device, "">>
CacheKey(input_device, raw_input) == <<input_device, raw_input>>

\* SELECT id FROM action_codes WHERE input_device = ? AND raw_input = ?
\* (fetchone: the first matching row, or None)
SelectIdAnyRaw(table, input_device, raw_input) ==
    LET hits == {i \in 1..Len(table) : table[i].input_device = input_device}
    IN  IF hits = {} THEN NULL
        ELSE Some(table[CHOOSE i \in hits : \A j \in hits : i <= j].id)
SelectId(table, input_device, raw_input) ==
    LET hits == {i \in 1..Len(table) :
                    /\ table[i].input_device = input_device
                    /\ table[i].raw_input = raw_input}
    IN  IF hits = {} THEN NULL
        ELSE Some(table[CHOOSE i \in hits : \A j \in hits : i <= j].id)

\* SELECT MAX(encoded_value) FROM action_codes WHERE input_device = ?
SelectMaxEncodedAllDevices(table, input_device) ==
    LET vals == {table[i].encoded_value : i \in 1..Len(table)}
    IN  IF vals = {} THEN NULL ELSE Some(SetMax(vals))
SelectMaxEncoded(table, input_device) ==
    LET vals == {table[i].encoded_value :
                    i \in {j \in 1..Len(table) : table[j].input_device = input_device}}
    IN  IF vals = {} THEN NULL ELSE Some(SetMax(vals))

\* encoded_value = (max_val + 1) if max_val is not None else 0
NextEncodedValueFalsyZero(max_val) ==
    IF max_val # NULL /\ max_val[1] # 0 THEN max_val[1] + 1 ELSE 0
NextEncodedValue(max_val) ==
    IF max_val # NULL THEN max_val[1] + 1 ELSE 0

\* UNIQUE(input_device, raw_input): would the INSERT raise IntegrityError?
UniqueViolated(table, input_device, raw_input) ==
    \E i \in 1..Len(table) :
        /\ table[i].input_device = input_device
        /\ table[i].raw_input = raw_input

\* id INTEGER PRIMARY KEY AUTOINCREMENT; no statement deletes from
\* action_codes, so the next id is the row count plus one.
LastRowId(table) == Len(table) + 1

InsertActionCode(table, input_device, raw_input, encoded_value) ==
    Append(table, [id |-> LastRowId(table),
                   input_device |-> input_device,
                   raw_input |-> raw_input,
                   encoded_value |-> encoded_value])

\* get_action_mapping(): "device:raw_input" -> encoded_value, from
\* SELECT input_device, raw_input, encoded_value FROM action_codes
get_action_mapping(table) ==
    [key \in {CacheKey(table[k].input_device, table[k].raw_input) : k \in DOMAIN table} |->
        LET k == SetMax({j \in DOMAIN table :
                    CacheKey(table[j].input_device, table[j].raw_input) = key})
        IN  table[k].encoded_value]

CachePut(cache, key, id) ==
    [k \in DOMAIN cache \cup {key} |-> IF k = key THEN id ELSE cache[k]]

LogReturn(log, input_device, raw_input, code) ==
    [log EXCEPT ![<<input_device, raw_input>>] = @ \cup {code}]

IdleThread == [pc |-> "idle", m |-> 0, input_device |-> "", raw_input |-> "",
               max_val |-> NULL, action_code_id |-> 0, result |-> NULL,
               fresh |-> FALSE, calls |-> 0]

InitDb ==
    /\ action_codes = <<>>
    /\ action_code_cache = [m \in Managers |-> <<>>]
    /\ ret_log = [p \in InputDevices \X RawInputs |-> {}]
    /\ db_threads = [t \in Threads |-> IdleThread]

\* DatabaseManager.__init__ on the same db_path: a new instance, empty cache.
\* (CREATE TABLE IF NOT EXISTS leaves the stored rows alone.)
NewDatabaseManager(m) ==
    /\ DOMAIN action_code_cache[m] # {}
    /\ action_code_cache' = [action_code_cache EXCEPT ![m] = <<>>]
    /\ UNCHANGED <<action_codes, ret_log, db_threads>>

\* get_or_create_action_code as a function of the table and of the caller's
\* cache (lines 273-310), no other caller running: the table and the cache
\* after the call, and the value returned (the row id).
GetOrCreate(table, cache, input_device, raw_input) ==
    LET cache_key == CacheKey(input_device, raw_input)
        row == SelectId(table, input_device, raw_input)
        encoded_value == NextEncodedValue(SelectMaxEncoded(table, input_device))
        action_code_id == IF row # NULL THEN row[1] ELSE LastRowId(table)
    IN  IF cache_key \in DOMAIN cache
        THEN [table |-> table, cache |-> cache, code |-> cache[cache_key]]
        ELSE [table |-> IF row # NULL THEN table
                        ELSE InsertActionCode(table, input_device, raw_input,
                                              encoded_value),
              cache |-> CachePut(cache, cache_key, action_code_id),
              code |-> action_code_id]

\* One whole call of get_or_create_action_code on manager m.
get_or_create_action_code(m, input_device, raw_input) ==
    LET r == GetOrCreate(action_codes, action_code_cache[m], input_device, raw_input)
    IN  /\ action_codes' = r.table
        /\ action_code_cache' = [action_code_cache EXCEPT ![m] = r.cache]
        /\ ret_log' = LogReturn(ret_log, input_device, raw_input, r.code)
        /\ UNCHANGED db_threads

\* ------------------------------------------------------------------------
\* get_or_create_action_code, one statement per step (concurrent callers).
\* Every caller opens its own connection; the SELECTs run in autocommit mode
\* and the INSERT with its commit is one write transaction, which SQLite
\* serialises against the other connections.
\* ------------------------------------------------------------------------

\* lines 273-277: build the key, look in the cache
DbCall(t, m, input_device, raw_input) ==
    LET cache_key == CacheKey(input_device, raw_input)
        cache == action_code_cache[m]
        me == [IdleThread EXCEPT !.m = m, !.input_device = input_device,
                                 !.raw_input = raw_input,
                                 !.calls = db_threads[t].calls + 1,
                                 !.fresh = ~UniqueViolated(action_codes,
                                                input_device, raw_input)]
    IN  /\ db_threads[t].pc = "idle"
        /\ db_threads[t].calls < MaxCalls
        /\ db_threads' = [db_threads EXCEPT ![t] =
                IF cache_key \in DOMAIN cache
                THEN [me EXCEPT !.pc = "done", !.result = Some(cache[cache_key])]
                ELSE [me EXCEPT !.pc = "select"]]
        /\ UNCHANGED <<action_codes, action_code_cache, ret_log>>

\* lines 283-290
DbSelect(t) ==
    LET me == db_threads[t]
        row == SelectId(action_codes, me.input_device, me.raw_input)
    IN  /\ me.pc = "select"
        /\ db_threads' = [db_threads EXCEPT ![t] =
                IF row # NULL
                THEN [me EXCEPT !.pc = "cache", !.action_code_id = row[1]]
                ELSE [me EXCEPT !.pc = "select_max"]]
        /\ UNCHANGED <<action_codes, action_code_cache, ret_log>>

\* lines 293-297
DbSelectMax(t) ==
    LET me == db_threads[t]
    IN  /\ me.pc = "select_max"
        /\ db_threads' = [db_threads EXCEPT ![t] =
                [me EXCEPT !.pc = "insert",
                           !.max_val = SelectMaxEncoded(action_codes, me.input_device)]]
        /\ UNCHANGED <<action_codes, action_code_cache, ret_log>>

\* lines 298-306: INSERT and commit; the UNIQUE constraint raises
\* sqlite3.IntegrityError, which nothing in the method catches.
DbInsert(t) ==
    LET me == db_threads[t]
    IN  /\ me.pc = "insert"
        /\ IF UniqueViolated(action_codes, me.input_device, me.raw_input)
           THEN /\ db_threads' = [db_threads EXCEPT ![t] = [me EXCEPT !.pc = "error"]]
                /\ UNCHANGED action_codes
           ELSE /\ action_codes' = InsertActionCode(action_codes, me.input_device,
                                        me.raw_input, NextEncodedValue(me.max_val))
                /\ db_threads' = [db_threads EXCEPT ![t] =
                        [me EXCEPT !.pc = "cache",
                                   !.action_code_id = LastRowId(action_codes)]]
        /\ UNCHANGED <<action_code_cache, ret_log>>

\* lines 309-310
DbCacheWrite(t) ==
    LET me == db_threads[t]
    IN  /\ me.pc = "cache"
        /\ action_code_cache' = [action_code_cache EXCEPT ![me.m] =
                CachePut(@, CacheKey(me.input_device, me.raw_input), me.action_code_id)]
        /\ db_threads' = [db_threads EXCEPT ![t] =
                [me EXCEPT !.pc = "done", !.result = Some(me.action_code_id)]]
        /\ UNCHANGED <<action_codes, ret_log>>

\* the caller takes the result (or the exception) and may call again
DbReturn(t) ==
    /\ db_threads[t].pc \in {"done", "error"}
    /\ db_threads' = [db_threads EXCEPT ![t] =
            [IdleThread EXCEPT !.calls = db_threads[t].calls]]
    /\ UNCHANGED <<action_codes, action_code_cache, ret_log>>

\* ------------------------------------------------------------------------
\* Sessions table, input_events table, capture components
\* ------------------------------------------------------------------------
MaxSessions == 1
MaxEvents == 1
MaxTicks == 1
\* the clock advances in steps of TickMs milliseconds
TickMs == 500
\* time that passes inside start_recording between the read of the
\* session's start_time and the read of the input recorder's start_time
\* (the session row is committed and the video and audio recorders are
\* started in between)
StartElapsedMs == 1

VARIABLES
    schema_migrated,  \* the store has the columns run_migration.py adds
    sessions,         \* the sessions table, rows in insertion order
    input_events,     \* the input_events table, rows in insertion order
    now,              \* wall clock, milliseconds
    cfg,              \* the SessionManager's constructor arguments
    sm,               \* the SessionManager's fields
    video_objs,       \* every VideoCapture constructed so far
    audio_objs,       \* every AudioCapture constructed so far
    input_objs,       \* every InputCapture constructed so far
    last_call         \* the orchestrator call that ended last, and its result

sessVars == <<schema_migrated, sessions, input_events, now, cfg, sm,
              video_objs, audio_objs, input_objs, last_call>>

InputTypes == {"keyboard", "xbox", "joystick"}
LatencyOffsets == {0}
Errors == {"error"}

\* ---- VideoCapture, as the orchestrator sees it --------------------------
\* sink: "none", "ffmpeg" (encoder process), "opencv" (opened VideoWriter),
\*       "unopened" (a VideoWriter object whose isOpened() is false)
\* threads: "none", "running", "stopped", "abandoned" (join timed out)
NewVideoCapture == [is_recording |-> FALSE, sink |-> "none", threads |-> "none"]

VideoStartOutcomes == {"ffmpeg", "opencv", "fail"}

\* VideoCapture.start_recording: the encoder starts; or it does not and the
\* built-in writer opens; or that writer does not open either.
VideoStartRecording(v, outcome) ==
    IF v.is_recording THEN [obj |-> v, ok |-> FALSE]
    ELSE IF outcome = "fail"
         THEN [obj |-> [v EXCEPT !.sink = "unopened"], ok |-> FALSE]
         ELSE [obj |-> [is_recording |-> TRUE, sink |-> outcome,
                        threads |-> "running"],
               ok |-> TRUE]

\* VideoCapture.stop_recording: both joins are bounded by a timeout
VideoStopRecording(v, joined) ==
    IF ~v.is_recording THEN v
    ELSE [is_recording |-> FALSE, sink |-> "none",
          threads |-> IF joined THEN "stopped" ELSE "abandoned"]

\* ---- AudioCapture --------------------------------------------------------
NewAudioCapture(c) ==
    [capture_system |-> c.capture_system_audio,
     capture_microphone |-> c.capture_microphone,
     is_recording |-> FALSE,
     system_stream |-> FALSE, system_file |-> FALSE,
     mic_stream |-> FALSE, mic_file |-> FALSE,
     \* blocks PortAudio has handed to each callback, blocks written to the file
     system_delivered |-> 0, system_written |-> 0,
     mic_delivered |-> 0, mic_written |-> 0]

\* one stream of AudioCapture.start_recording: "ok"; "no_file" (SoundFile
\* raises); "no_stream" (the file is open, InputStream or its start raises)
AudioStreamOutcomes == {"ok", "no_file", "no_stream"}

OpenStream(enabled, outcome) ==
    IF ~enabled THEN [file |-> FALSE, stream |-> FALSE, ok |-> TRUE]
    ELSE [file |-> outcome # "no_file", stream |-> outcome = "ok",
          ok |-> outcome = "ok"]

AudioStartRecording(a, sys_outcome, mic_outcome) ==
    IF a.is_recording THEN [obj |-> a, ok |-> FALSE]
    ELSE LET sys == OpenStream(a.capture_system, sys_outcome)
             mic == OpenStream(a.capture_microphone, mic_outcome)
             success == sys.ok /\ mic.ok
         IN  [obj |-> [a EXCEPT !.system_stream = sys.stream,
                                !.system_file = sys.file,
                                !.mic_stream = mic.stream,
                                !.mic_file = mic.file,
                                !.is_recording = success],
              ok |-> success]

AudioStopRecording(a) ==
    IF ~a.is_recording THEN a
    ELSE [a EXCEPT !.is_recording = FALSE,
                   !.system_stream = FALSE, !.system_file = FALSE,
                   !.mic_stream = FALSE, !.mic_file = FALSE]

\* blocks of samples delivered to the callbacks of one AudioCapture
MaxSamples == 2

\* _system_audio_callback: if self.system_file and self.is_recording: write
SystemCallbackWritesAlways(a) == a.system_file
SystemCallbackWrites(a) == a.system_file /\ a.is_recording

\* _microphone_callback: if self.mic_file and self.is_recording: write
MicCallbackWrites(a) == a.mic_file /\ a.is_recording

\* PortAudio calls the callback of a running stream with a block of samples
SystemAudioCallback(a) ==
    [a EXCEPT !.system_delivered = @ + 1,
              !.system_written = IF SystemCallbackWrites(a) THEN @ + 1 ELSE @]

MicrophoneCallback(a) ==
    [a EXCEPT !.mic_delivered = @ + 1,
              !.mic_written = IF MicCallbackWrites(a) THEN @ + 1 ELSE @]

\* ---- InputCapture --------------------------------------------------------
NewInputCapture(c) ==
    [input_type |-> c.input_type,
     capture_mouse |-> c.capture_mouse /\ c.input_type = "keyboard",
     latency_offset_ms |-> c.latency_offset_ms,
     is_recording |-> FALSE, start_time |-> NULL,
     keyboard_listener |-> FALSE, mouse_listener |-> FALSE,
     gamepad_thread |-> FALSE, events |-> <<>>,
     \* where _gamepad_loop stands: "none" while no thread was started
     gamepad_pc |-> "none",
     \* pointer moves, and key, click and scroll events, that the hooks have
     \* delivered since start_recording
     moves_delivered |-> 0, others_delivered |-> 0]

\* "ok"; "first_fail": the keyboard listener (or the gamepad thread) does not
\* start; "mouse_fail": the keyboard listener runs, the mouse listener raises
InputStartOutcomes == {"ok", "first_fail", "mouse_fail"}

InputStartRecording(i, outcome, t) ==
    IF i.is_recording THEN [obj |-> i, ok |-> FALSE]
    ELSE LET on == [i EXCEPT !.is_recording = TRUE, !.start_time = Some(t),
                             !.events = <<>>,
                             !.moves_delivered = 0, !.others_delivered = 0]
             off == [on EXCEPT !.is_recording = FALSE]
         IN  IF i.input_type = "keyboard"
             THEN IF outcome = "first_fail" THEN [obj |-> off, ok |-> FALSE]
                  ELSE IF outcome = "mouse_fail" /\ i.capture_mouse
                  THEN [obj |-> [off EXCEPT !.keyboard_listener = TRUE],
                        ok |-> FALSE]
                  ELSE [obj |-> [on EXCEPT !.keyboard_listener = TRUE,
                                           !.mouse_listener = i.capture_mouse],
                        ok |-> TRUE]
             ELSE IF i.input_type \in {"xbox", "playstation"}
             THEN IF outcome = "first_fail" THEN [obj |-> off, ok |-> FALSE]
                  ELSE [obj |-> [on EXCEPT !.gamepad_thread = TRUE,
                                           !.gamepad_pc = "started"],
                        ok |-> TRUE]
             ELSE [obj |-> off, ok |-> FALSE]

InputStopRecording(i) ==
    IF ~i.is_recording THEN [obj |-> i, events |-> <<>>]
    ELSE [obj |-> [i EXCEPT !.is_recording = FALSE,
                            !.keyboard_listener = FALSE,
                            !.mouse_listener = FALSE,
                            !.gamepad_thread = FALSE],
          events |-> i.events]

\* self.events = deque(maxlen=10000): an append to the full deque discards
\* the item at the other end
EventBufferCapacity == 10000

DequeAppendDecimating(q, e) == IF Len(q) % 10 = 0 THEN Append(q, e) ELSE q
DequeAppend(q, e) ==
    IF Len(q) >= EventBufferCapacity THEN Append(Tail(q), e) ELSE Append(q, e)

\* the event dict a callback builds; 1.0 and 0.0 are 1 and 0, None is NULL
InputEventDict(t, device, key, action, value, x, y) ==
    [timestamp_ms |-> t, input_device |-> device, button_key |-> key,
     action |-> action, value |-> value, x_position |-> x, y_position |-> y]

\* the value of a key or button event: 1.0 when pressed, 0.0 when released
PressValue(action) == IF action = "press" THEN Some(1) ELSE Some(0)

\* int((time.time() - start_time) * 1000 + latency_offset_ms)
get_timestamp_msWallClock(i, t) == t + i.latency_offset_ms
get_timestamp_ms(i, t) ==
    IF i.start_time = NULL THEN 0
    ELSE (t - i.start_time[1]) + i.latency_offset_ms

\* ---- sessions table ------------------------------------------------------
\* Session(...) as start_recording builds it
NewSession(t) ==
    [id |-> NULL, status |-> "recording", start_time |-> t,
     end_time |-> NULL, duration_seconds |-> NULL, notes |-> NULL,
     video_width |-> NULL, video_height |-> NULL, video_codec |-> NULL,
     total_frames |-> NULL, file_size_bytes |-> NULL]

\* INSERT INTO sessions ...; returns cursor.lastrowid
create_session(table, session) ==
    Append(table, [session EXCEPT !.id = Some(Len(table) + 1)])

\* UPDATE sessions SET <every column> WHERE id = ?
update_session(table, session) ==
    [k \in DOMAIN table |-> IF table[k].id = session.id THEN session ELSE table[k]]

\* a deleted row: the id is gone from the table, and AUTOINCREMENT does not
\* hand it out again
DeletedRow == [NewSession(0) EXCEPT !.status = "deleted"]

\* DELETE FROM sessions WHERE id = ?
delete_session(table, session_id) ==
    [k \in DOMAIN table |->
        IF table[k].id = Some(session_id) THEN DeletedRow ELSE table[k]]

\* UPDATE sessions SET status = 'failed', notes = ? WHERE id = ?
mark_session_failed(table, session_id, error) ==
    [k \in DOMAIN table |->
        IF table[k].id = Some(session_id)
        THEN [table[k] EXCEPT !.status = "failed", !.notes = Some(error)]
        ELSE table[k]]

\* ---- input_events table --------------------------------------------------
\* batch_size in SessionManager.stop_recording
batch_size == 1000

\* the loop of add_input_events_batch: one get_or_create_action_code per
\* event, each committing on its own connection.  The events are taken in
\* order, the first half of the list before the second.
RECURSIVE ResolveCodes(_, _, _, _, _)
ResolveCodes(table, cache, log, events, data) ==
    IF events = <<>>
    THEN [table |-> table, cache |-> cache, log |-> log, data |-> data]
    ELSE IF Len(events) = 1
    THEN LET e == Head(events)
             r == GetOrCreate(table, cache, e.input_device, e.button_key)
         IN  [table |-> r.table, cache |-> r.cache,
              log |-> LogReturn(log, e.input_device, e.button_key, r.code),
              data |-> Append(data, [e EXCEPT !.action_code = Some(r.code)])]
    ELSE LET half == Len(events) \div 2
             first == ResolveCodes(table, cache, log, SubSeq(events, 1, half), data)
         IN  \* the first half has added one entry per event by now
             CASE Len(first.data) = Len(data) + half ->
                ResolveCodes(first.table, first.cache, first.log,
                             SubSeq(events, half + 1, Len(events)), first.data)

\* input_events after an executemany that raised: leaving the "with
\* sqlite3.connect" block by an exception rolls the connection back, and data
\* holds what the statement was inserting
InsertKeepsFirstRow(rows, data) == rows \o SubSeq(data, 1, 1)
InsertRolledBack(rows, data) == rows

NumBatches(n) == (n + batch_size - 1) \div batch_size

\* the batch loop of stop_recording (lines 234-238) from batch k on; the
\* executemany of batch fail_batch raises (0: none does)
RECURSIVE SaveBatches(_, _, _, _, _, _, _)
SaveBatches(table, cache, log, rows, event_objects, k, fail_batch) ==
    IF (k - 1) * batch_size >= Len(event_objects)
    THEN [table |-> table, cache |-> cache, log |-> log, rows |-> rows,
          raised |-> FALSE]
    ELSE LET last == IF k * batch_size < Len(event_objects)
                     THEN k * batch_size ELSE Len(event_objects)
             batch == SubSeq(event_objects, (k - 1) * batch_size + 1, last)
             r == ResolveCodes(table, cache, log, batch, <<>>)
         IN  IF k = fail_batch
             THEN [table |-> r.table, cache |-> r.cache, log |-> r.log,
                   rows |-> InsertRolledBack(rows, r.data), raised |-> TRUE]
             ELSE SaveBatches(r.table, r.cache, r.log, rows \o r.data,
                              event_objects, k + 1, fail_batch)

\* ------------------------------------------------------------------------
\* Session orchestrator
\* ------------------------------------------------------------------------
NoCall == [op |-> "none", result |-> "None", video_ok |-> FALSE,
           audio_ok |-> FALSE, input_ok |-> FALSE, objs |-> NULL,
           session |-> NULL]

\* Constructor arguments of the SessionManager.  capture_mouse is read only
\* in keyboard mode (input_capture.py line 35) and the two audio streams are
\* handled alike, so one of two mirrored settings is kept.
Configs ==
    {c \in [input_type : InputTypes,
            capture_system_audio : BOOLEAN,
            capture_microphone : BOOLEAN,
            capture_mouse : BOOLEAN,
            latency_offset_ms : LatencyOffsets] :
        /\ c.capture_mouse => c.input_type = "keyboard"
        /\ c.capture_system_audio => c.capture_microphone}

\* threads that call start_recording on the one orchestrator at a time
NumCallers == 2
Callers == 1..NumCallers

InitSession ==
    /\ schema_migrated \in BOOLEAN
    /\ sessions = <<>>
    /\ input_events = <<>>
    /\ now = 0
    /\ cfg \in Configs
    /\ sm = [is_recording |-> FALSE, current_session |-> NULL,
             session_id |-> NULL, session_path |-> NULL,
             video_capture |-> NULL, audio_capture |-> NULL,
             input_capture |-> NULL,
             \* where each concurrent start_recording call stands
             callers |-> [c \in Callers |-> "idle"]]
    /\ video_objs = <<>>
    /\ audio_objs = <<>>
    /\ input_objs = <<>>
    /\ last_call = NoCall

\* success of start_recording (lines 169-180): audio does not count
StartSuccessNeedsAudio(video_ok, audio_ok, input_ok) ==
    video_ok /\ audio_ok /\ input_ok
StartSuccess(video_ok, audio_ok, input_ok) == video_ok /\ input_ok

\* SessionManager._cleanup
Cleanup(s) ==
    [s EXCEPT !.video_capture = NULL, !.audio_capture = NULL,
              !.input_capture = NULL, !.current_session = NULL,
              !.session_id = NULL, !.session_path = NULL]

\* datetime.now().strftime("%Y%m%d_%H%M%S"): the directory name has the
\* resolution of one second
SessionPath(t) == t \div 1000

\* SessionManager.start_recording, lines 102-104: already recording, the
\* call prints a warning and returns False
StartWhileRecordingNewPath ==
    /\ last_call' = [NoCall EXCEPT !.op = "start_recording",
                                   !.result = "False"]
    /\ sm' = [sm EXCEPT !.session_path = Some(SessionPath(now) + 1)]
    /\ UNCHANGED <<schema_migrated, sessions, input_events, now, cfg,
                   video_objs, audio_objs, input_objs>>
StartWhileRecording ==
    /\ last_call' = [NoCall EXCEPT !.op = "start_recording",
                                   !.result = "False"]
    /\ UNCHANGED <<schema_migrated, sessions, input_events, now, cfg, sm,
                   video_objs, audio_objs, input_objs>>

\* SessionManager.start_recording; vo, so, mo, io: what the video pipeline,
\* the two audio streams and the input hooks do when asked to start
start_recording(vo, so, mo, io) ==
    IF sm.is_recording
    THEN StartWhileRecording
    ELSE IF ~schema_migrated
    THEN \* create_session raises sqlite3.OperationalError: the fresh
         \* sessions table has no column video_width
         /\ sm' = [sm EXCEPT !.session_path = Some(SessionPath(now)),
                             !.current_session = Some(NewSession(now))]
         /\ last_call' = [NoCall EXCEPT !.op = "start_recording",
                                        !.result = "raised"]
         /\ UNCHANGED <<schema_migrated, sessions, input_events, now, cfg,
                        video_objs, audio_objs, input_objs>>
    ELSE LET sid == Len(sessions) + 1
             cur == [NewSession(now) EXCEPT !.id = Some(sid)]
             o == Len(video_objs) + 1
             v == VideoStartRecording(NewVideoCapture, vo)
             a == AudioStartRecording(NewAudioCapture(cfg), so, mo)
             i == InputStartRecording(NewInputCapture(cfg), io,
                                      now + StartElapsedMs)
             success == StartSuccess(v.ok, a.ok, i.ok)
             started == [sm EXCEPT !.is_recording = success,
                                   !.current_session = Some(cur),
                                   !.session_id = Some(sid),
                                   !.session_path = Some(SessionPath(now)),
                                   !.video_capture = Some(o),
                                   !.audio_capture = Some(o),
                                   !.input_capture = Some(o)]
         IN  /\ Len(sessions) < MaxSessions
             /\ sessions' = create_session(sessions, NewSession(now))
             /\ video_objs' = Append(video_objs, v.obj)
             /\ audio_objs' = Append(audio_objs, a.obj)
             /\ input_objs' = Append(input_objs, i.obj)
             /\ sm' = IF success THEN started ELSE Cleanup(started)
             /\ last_call' = [op |-> "start_recording",
                              result |-> IF success THEN "True" ELSE "False",
                              video_ok |-> v.ok, audio_ok |-> a.ok,
                              input_ok |-> i.ok, objs |-> Some(o),
                              session |-> Some(sid)]
             /\ now' = now + StartElapsedMs
             /\ UNCHANGED <<schema_migrated, input_events, cfg>>

\* ---- start_recording called from several threads, step by step ----------
\* lines 102-104: the already-recording check; nothing holds a second
\* caller back while the first is between its check and its return
StartCallCheck(c) ==
    /\ sm.callers[c] = "idle"
    /\ sm' = [sm EXCEPT !.callers[c] =
                    IF sm.is_recording THEN "False" ELSE "checked"]
    /\ UNCHANGED <<schema_migrated, sessions, input_events, now, cfg,
                   video_objs, audio_objs, input_objs, last_call>>

\* lines 117-142: the directory, the Session object and its row
StartCallCreate(c) ==
    /\ sm.callers[c] = "checked"
    /\ Len(sessions) < NumCallers
    /\ sessions' = create_session(sessions, NewSession(now))
    /\ sm' = [sm EXCEPT
            !.callers[c] = "created",
            !.session_path = Some(SessionPath(now)),
            !.session_id = Some(Len(sessions) + 1),
            !.current_session =
                Some([NewSession(now) EXCEPT !.id = Some(Len(sessions) + 1)])]
    /\ UNCHANGED <<schema_migrated, input_events, now, cfg, video_objs,
                   audio_objs, input_objs, last_call>>

\* lines 144-191: the components are built and started, is_recording is set
\* on success, _cleanup is called on failure
StartCallComponents(c, vo, io) ==
    /\ sm.callers[c] = "created"
    /\ LET o == Len(video_objs) + 1
           v == VideoStartRecording(NewVideoCapture, vo)
           a == AudioStartRecording(NewAudioCapture(cfg), "ok", "ok")
           i == InputStartRecording(NewInputCapture(cfg), io, now)
           success == StartSuccess(v.ok, a.ok, i.ok)
           started == [sm EXCEPT !.is_recording = success,
                                 !.video_capture = Some(o),
                                 !.audio_capture = Some(o),
                                 !.input_capture = Some(o),
                                 !.callers[c] = IF success THEN "True"
                                                ELSE "False"]
       IN  /\ video_objs' = Append(video_objs, v.obj)
           /\ audio_objs' = Append(audio_objs, a.obj)
           /\ input_objs' = Append(input_objs, i.obj)
           /\ sm' = IF success THEN started ELSE Cleanup(started)
    /\ UNCHANGED <<schema_migrated, sessions, input_events, now, cfg, last_call>>

\* InputEvent(session_id=self.session_id, ...) for each captured event
EventObjectsWithoutValue(session_id, events) ==
    [k \in 1..Len(events) |->
        [session_id |-> session_id,
         timestamp_ms |-> events[k].timestamp_ms,
         input_device |-> events[k].input_device,
         button_key |-> events[k].button_key,
         action |-> events[k].action,
         value |-> NULL,
         x_position |-> events[k].x_position,
         y_position |-> events[k].y_position,
         action_code |-> NULL]]
EventObjects(session_id, events) ==
    [k \in 1..Len(events) |->
        [session_id |-> session_id,
         timestamp_ms |-> events[k].timestamp_ms,
         input_device |-> events[k].input_device,
         button_key |-> events[k].button_key,
         action |-> events[k].action,
         value |-> events[k].value,
         x_position |-> events[k].x_position,
         y_position |-> events[k].y_position,
         action_code |-> NULL]]

\* lines 244-247: int(duration) drops the fraction of a second
CompletedSessionRounded(session, t) ==
    [session EXCEPT !.end_time = Some(t),
                    !.duration_seconds =
                        Some(((t - session.start_time) + 500) \div 1000),
                    !.status = "completed"]
CompletedSession(session, t) ==
    [session EXCEPT !.end_time = Some(t),
                    !.duration_seconds = Some((t - session.start_time) \div 1000),
                    !.status = "completed"]

\* SessionManager.stop_recording.  The orchestrator's DatabaseManager is
\* manager 1.
stop_recording ==
    IF ~sm.is_recording
    THEN /\ last_call' = [NoCall EXCEPT !.op = "stop_recording"]
         /\ UNCHANGED <<schema_migrated, sessions, input_events, now, cfg, sm,
                        video_objs, audio_objs, input_objs,
                        action_codes, action_code_cache, ret_log>>
    ELSE \E joined \in BOOLEAN,
            fail_batch \in 0..NumBatches(Len(input_objs[sm.input_capture[1]].events)) :
         LET vh == sm.video_capture[1]
             ah == sm.audio_capture[1]
             ih == sm.input_capture[1]
             stopped == InputStopRecording(input_objs[ih])
             input_events_list == stopped.events
             event_objects == EventObjects(sm.session_id[1], input_events_list)
             saved == SaveBatches(action_codes, action_code_cache[1], ret_log,
                                  input_events, event_objects, 1, fail_batch)
             cur == CompletedSession(sm.current_session[1], now)
         IN  /\ video_objs' = [video_objs EXCEPT ![vh] = VideoStopRecording(@, joined)]
             /\ audio_objs' = [audio_objs EXCEPT ![ah] = AudioStopRecording(@)]
             /\ input_objs' = [input_objs EXCEPT ![ih] = stopped.obj]
             /\ action_codes' = saved.table
             /\ action_code_cache' = [action_code_cache EXCEPT ![1] = saved.cache]
             /\ ret_log' = saved.log
             /\ input_events' = saved.rows
             /\ IF saved.raised
                THEN \* the exception leaves stop_recording before line 243
                     /\ sm' = [sm EXCEPT !.is_recording = FALSE]
                     /\ last_call' = [NoCall EXCEPT !.op = "stop_recording",
                                                    !.result = "raised",
                                                    !.objs = sm.input_capture,
                                                    !.session = sm.session_id]
                     /\ UNCHANGED sessions
                ELSE /\ sessions' = update_session(sessions, cur)
                     /\ sm' = Cleanup([sm EXCEPT !.is_recording = FALSE])
                     /\ last_call' = [NoCall EXCEPT !.op = "stop_recording",
                                                    !.objs = sm.input_capture,
                                                    !.session = sm.session_id]
             /\ UNCHANGED <<schema_migrated, now, cfg>>

\* DatabaseManager.mark_session_failed, called on a stored session
MarkSessionFailed(session_id, error) ==
    /\ session_id \in 1..Len(sessions)
    /\ sessions' = mark_session_failed(sessions, session_id, error)
    /\ UNCHANGED <<schema_migrated, input_events, now, cfg, sm, video_objs,
                   audio_objs, input_objs, last_call>>

\* run_migration.py adds the columns the fresh schema lacks
RunMigration ==
    /\ ~schema_migrated
    /\ schema_migrated' = TRUE
    /\ UNCHANGED <<sessions, input_events, now, cfg, sm, video_objs,
                   audio_objs, input_objs, last_call>>

Tick ==
    /\ now < MaxTicks * TickMs
    /\ now' = now + TickMs
    /\ UNCHANGED <<schema_migrated, sessions, input_events, cfg, sm, video_objs,
                   audio_objs, input_objs, last_call>>

\* InputCapture._on_keyboard_press / _on_keyboard_release on object o: the
\* hook is installed for as long as the listener runs.  The buffer of a
\* recorder whose handle the orchestrator dropped is never read again, so
\* events are delivered to the orchestrator's current recorder only.
OnKeyboard(o, key, action) ==
    /\ o \in 1..Len(input_objs)
    /\ sm.input_capture = Some(o)
    /\ input_objs[o].keyboard_listener
    /\ input_objs[o].is_recording
    /\ Len(input_objs[o].events) < MaxEvents
    /\ input_objs' = [input_objs EXCEPT
            ![o].events = DequeAppend(@,
                InputEventDict(get_timestamp_ms(input_objs[o], now), "keyboard",
                               key, action, PressValue(action), NULL, NULL)),
            ![o].others_delivered = @ + 1]
    /\ UNCHANGED <<schema_migrated, sessions, input_events, now, cfg, sm,
                   video_objs, audio_objs, last_call>>

\* ---- _gamepad_loop, on the thread of recorder o ---------------------------
\* what the thread finds: Windows with the inputs library, another platform,
\* or no inputs library
GamepadEnvironments == {"ok", "not_windows", "no_inputs"}

\* inputs.get_gamepad(): events, inputs.UnpluggedError, or another exception
GamepadReadOutcomes == {"events", "unplugged", "error"}

\* reads of the gamepad in one recording
MaxGamepadReads == 2

GamepadFrame ==
    UNCHANGED <<schema_migrated, sessions, input_events, now, cfg, sm,
                video_objs, audio_objs, last_call>>

\* lines 174-180 and 217-220: the platform check returns, a failing import
\* leaves through the outer except; otherwise the loop is entered
GamepadLoopStart(o, env) ==
    /\ o \in 1..Len(input_objs)
    /\ input_objs[o].gamepad_pc = "started"
    /\ input_objs' = [input_objs EXCEPT
            ![o].gamepad_pc = IF env = "ok" THEN "poll" ELSE "exited"]
    /\ GamepadFrame

\* lines 184-215: one pass of the while loop.  Events are appended; a read
\* that raises is caught inside the loop and followed by a sleep
GamepadRead(o, outcome) ==
    /\ o \in 1..Len(input_objs)
    /\ input_objs[o].gamepad_pc = "poll"
    /\ input_objs[o].is_recording
    /\ input_objs[o].others_delivered < MaxGamepadReads
    /\ input_objs' = [input_objs EXCEPT
            ![o] = IF outcome = "events"
                   THEN [@ EXCEPT
                           !.events = DequeAppend(@,
                               InputEventDict(get_timestamp_ms(input_objs[o], now),
                                              input_objs[o].input_type, "a",
                                              "press", Some(1), NULL, NULL)),
                           !.others_delivered = @ + 1]
                   ELSE [@ EXCEPT !.gamepad_pc = "backoff",
                                  !.others_delivered = @ + 1]]
    /\ GamepadFrame

\* time.sleep(1.0) or time.sleep(0.1) returns
GamepadBackoffEnds(o) ==
    /\ o \in 1..Len(input_objs)
    /\ input_objs[o].gamepad_pc = "backoff"
    /\ input_objs' = [input_objs EXCEPT ![o].gamepad_pc = "poll"]
    /\ GamepadFrame

\* line 184: while self.is_recording
GamepadLoopExit(o) ==
    /\ o \in 1..Len(input_objs)
    /\ input_objs[o].gamepad_pc = "poll"
    /\ ~input_objs[o].is_recording
    /\ input_objs' = [input_objs EXCEPT ![o].gamepad_pc = "exited"]
    /\ GamepadFrame

\* InputCapture._on_mouse_click
OnMouseClick(o, button, pressed) ==
    /\ o \in 1..Len(input_objs)
    /\ sm.input_capture = Some(o)
    /\ input_objs[o].mouse_listener
    /\ input_objs[o].is_recording
    /\ Len(input_objs[o].events) < MaxEvents
    /\ input_objs' = [input_objs EXCEPT
            ![o].events = DequeAppend(@,
                InputEventDict(get_timestamp_ms(input_objs[o], now), "mouse", button,
                               IF pressed THEN "press" ELSE "release",
                               IF pressed THEN Some(1) ELSE Some(0),
                               Some(0), Some(0))),
            ![o].others_delivered = @ + 1]
    /\ UNCHANGED <<schema_migrated, sessions, input_events, now, cfg, sm,
                   video_objs, audio_objs, last_call>>

\* pointer moves and scrolls delivered to one recorder
MaxMoves == 10
MaxScrolls == 2

\* "Record 1 in 10 move events": the test is on the length of the buffer
RecordsMove(i) == Len(i.events) % 10 = 0

\* InputCapture._on_mouse_move
OnMouseMove(o) ==
    /\ o \in 1..Len(input_objs)
    /\ sm.input_capture = Some(o)
    /\ input_objs[o].mouse_listener
    /\ input_objs[o].is_recording
    /\ input_objs[o].moves_delivered < MaxMoves
    /\ input_objs' = [input_objs EXCEPT
            ![o].events =
                IF RecordsMove(input_objs[o])
                THEN DequeAppend(@, InputEventDict(
                        get_timestamp_ms(input_objs[o], now), "mouse", "move",
                        "move", NULL, Some(0), Some(0)))
                ELSE @,
            ![o].moves_delivered = @ + 1]
    /\ UNCHANGED <<schema_migrated, sessions, input_events, now, cfg, sm,
                   video_objs, audio_objs, last_call>>

\* InputCapture._on_mouse_scroll, the wheel turned by dy
OnMouseScroll(o, dy) ==
    /\ o \in 1..Len(input_objs)
    /\ sm.input_capture = Some(o)
    /\ input_objs[o].mouse_listener
    /\ input_objs[o].is_recording
    /\ input_objs[o].others_delivered < MaxScrolls
    /\ input_objs' = [input_objs EXCEPT
            ![o].events = DequeAppend(@, InputEventDict(
                    get_timestamp_ms(input_objs[o], now), "mouse", "scroll",
                    "scroll", Some(dy), Some(0), Some(0))),
            ![o].others_delivered = @ + 1]
    /\ UNCHANGED <<schema_migrated, sessions, input_events, now, cfg, sm,
                   video_objs, audio_objs, last_call>>

\* scrolls delivered beyond the capacity of the buffer
ExtraScrolls == 1

\* the wheel turned quickly: _on_mouse_scroll called this many times in a
\* row, nothing else happening in between
BurstSizes == {250, 5000}

\* DequeAppend applied to each item of es in turn: the deque keeps the last
\* EventBufferCapacity items
DequeExtend(q, es) ==
    LET all == q \o es
    IN  IF Len(all) > EventBufferCapacity
        THEN SubSeq(all, Len(all) - EventBufferCapacity + 1, Len(all))
        ELSE all

\* a burst of n calls of _on_mouse_scroll, the k-th scroll of the recording
\* carrying dy = k
OnMouseScrollBurst(o, n) ==
    /\ o \in 1..Len(input_objs)
    /\ sm.input_capture = Some(o)
    /\ input_objs[o].mouse_listener
    /\ input_objs[o].is_recording
    /\ input_objs[o].others_delivered + n <= EventBufferCapacity + ExtraScrolls
    /\ input_objs' = [input_objs EXCEPT
            ![o].events = DequeExtend(@,
                [k \in 1..n |-> InputEventDict(
                    get_timestamp_ms(input_objs[o], now), "mouse", "scroll",
                    "scroll", Some(input_objs[o].others_delivered + k),
                    Some(0), Some(0))]),
            ![o].others_delivered = @ + n]
    /\ UNCHANGED <<schema_migrated, sessions, input_events, now, cfg, sm,
                   video_objs, audio_objs, last_call>>

\* InputCapture.stop_recording called on recorder o
StopInput(o) ==
    /\ o \in 1..Len(input_objs)
    /\ input_objs[o].is_recording
    /\ input_objs' = [input_objs EXCEPT ![o] = InputStopRecording(@).obj]
    /\ UNCHANGED <<schema_migrated, sessions, input_events, now, cfg, sm,
                   video_objs, audio_objs, last_call>>

\* ------------------------------------------------------------------------
\* Video pipeline: one VideoCapture, its capture task and its writer task
\* ------------------------------------------------------------------------
\* queue.Queue(maxsize=120)
QueueCapacity == 120
\* frames grabbed beyond the capacity of the queue
ExtraFrames == 2
MaxFrames == QueueCapacity + ExtraFrames

VARIABLES
    vc,              \* fields of the VideoCapture: is_recording, sink
    frame_queue,     \* self.frame_queue: frames (numbered in capture order)
    capture_thread,  \* _capture_loop: position, frame in hand, frame_count,
                     \* last_capture
    write_thread,    \* _write_loop: position, frame in hand, frame_count
    sink_frames,     \* the frames the sink has received, in order
    grabbed,         \* frames the frame source has produced so far
    put_failed       \* how often put() raised queue.Full

vidVars == <<vc, frame_queue, capture_thread, write_thread, sink_frames,
             grabbed, put_failed>>

InitVideo ==
    /\ vc = [is_recording |-> FALSE, sink |-> "none", stopping |-> FALSE,
             \* the threads of a second start_recording on the same object
             capture2 |-> "none", writer2 |-> "none",
             \* the sink was closed or released while self.ffmpeg_process or
             \* self.video_writer still referred to it; write calls issued
             \* on a sink after its close
             sink_closed |-> FALSE, late_writes |-> 0]
    /\ frame_queue = <<>>
    /\ capture_thread = [pc |-> "none", frame |-> 0, frame_count |-> 0,
                         last_capture |-> 0]
    /\ write_thread = [pc |-> "none", frame |-> 0, frame_count |-> 0]
    /\ sink_frames = <<>>
    /\ grabbed = 0
    /\ put_failed = 0

\* Queue.put(item, timeout=0.01) on a full queue raises queue.Full
QueueNeverFull(q) == FALSE
QueueFull(q) == Len(q) >= QueueCapacity

\* put(..., timeout=0.01) returns or raises within the timeout, whatever
\* the queue holds
BlockingPutReturns(q) == ~QueueFull(q)
PutReturns(q) == TRUE

\* Queue.get: the oldest item, removed from the queue
QueuePeek(q) == [item |-> Head(q), queue |-> q]
QueueGet(q) == [item |-> Head(q), queue |-> Tail(q)]

\* The pipeline keeps no count of the frames it drops: on queue.Full the
\* capture loop prints a warning and goes on (lines 228-229).
DroppedFrameCounter == 0

\* VideoCapture.start_recording (lines 268-330) on a VideoCapture that has
\* not recorded before: the orchestrator builds one per session
VideoStart(outcome) ==
    /\ ~vc.is_recording
    /\ capture_thread.pc = "none"
    /\ vc.sink = "none"
    /\ LET r == VideoStartRecording([is_recording |-> vc.is_recording,
                                     sink |-> vc.sink, threads |-> "none"],
                                    outcome)
       IN  /\ vc' = [vc EXCEPT !.is_recording = r.obj.is_recording,
                               !.sink = r.obj.sink]
           /\ capture_thread' = [capture_thread EXCEPT
                                    !.pc = IF r.ok THEN "loop" ELSE "none",
                                    !.last_capture = now]
           /\ write_thread' = [write_thread EXCEPT
                                    !.pc = IF r.ok THEN "loop" ELSE "none"]
    /\ UNCHANGED <<frame_queue, sink_frames, grabbed, put_failed>>

\* _capture_loop, lines 213-224: is_recording is read, a period has elapsed
\* and the frame source returns a frame
CaptureGrabUpTo(frames) ==
    /\ capture_thread.pc = "loop"
    /\ vc.is_recording
    /\ grabbed < frames
    /\ grabbed' = grabbed + 1
    /\ capture_thread' = [capture_thread EXCEPT !.pc = "put", !.frame = grabbed + 1]
    /\ UNCHANGED <<vc, frame_queue, write_thread, sink_frames, put_failed>>

CaptureGrab == CaptureGrabUpTo(MaxFrames)

\* _capture_frame_mss / _capture_frame_dxcam: the frame, or None when the
\* grab raised (the except clause prints the error) or returned nothing
capture_frameRaising(grab_ok, n) ==
    [frame |-> IF grab_ok THEN Some(n) ELSE NULL, raised |-> ~grab_ok]
capture_frame(grab_ok, n) ==
    [frame |-> IF grab_ok THEN Some(n) ELSE NULL, raised |-> FALSE]

\* frame_time = 1.0 / self.fps, in milliseconds
fps == 60
FrameTimeMs == 1000 \div fps

\* periods of the capture loop that are followed
MaxPeriods == 3

\* _capture_loop, lines 213-233, with the clock: once a period has elapsed
\* since last_capture a grab is attempted, and last_capture moves to the time
\* of the attempt whether or not it gave a frame; an exception that left
\* _capture_frame would leave the loop and end the thread
CaptureGrabTimed(grab_ok) ==
    /\ capture_thread.pc = "loop"
    /\ vc.is_recording
    /\ now - capture_thread.last_capture >= FrameTimeMs
    /\ grabbed < MaxPeriods
    /\ grabbed' = grabbed + 1
    /\ LET r == capture_frame(grab_ok, grabbed + 1)
       IN  capture_thread' =
             IF r.raised
             THEN [capture_thread EXCEPT !.pc = "done", !.frame = 0]
             ELSE IF r.frame = NULL
             THEN [capture_thread EXCEPT !.pc = "loop", !.frame = 0,
                                         !.last_capture = now]
             ELSE [capture_thread EXCEPT !.pc = "put", !.frame = r.frame[1],
                                         !.last_capture = now]
    /\ UNCHANGED <<vc, frame_queue, write_thread, sink_frames, put_failed>>

\* _capture_loop, lines 232-233: time.sleep(max(0.001, frame_time - elapsed))
CaptureSleep ==
    /\ capture_thread.pc = "loop"
    /\ vc.is_recording
    /\ now - capture_thread.last_capture < FrameTimeMs
    /\ now < MaxPeriods * FrameTimeMs
    /\ now' = capture_thread.last_capture + FrameTimeMs
    /\ UNCHANGED <<schema_migrated, sessions, input_events, cfg, sm, video_objs,
                   audio_objs, input_objs, last_call>>

\* _capture_loop, lines 225-231
CapturePut ==
    /\ capture_thread.pc = "put"
    /\ PutReturns(frame_queue)
    /\ IF QueueFull(frame_queue)
       THEN /\ put_failed' = put_failed + 1
            /\ capture_thread' = [capture_thread EXCEPT !.pc = "loop", !.frame = 0]
            /\ UNCHANGED frame_queue
       ELSE /\ frame_queue' = Append(frame_queue, capture_thread.frame)
            /\ capture_thread' = [capture_thread EXCEPT
                                    !.pc = "loop", !.frame = 0,
                                    !.frame_count = @ + 1]
            /\ UNCHANGED put_failed
    /\ UNCHANGED <<vc, write_thread, sink_frames, grabbed>>

\* _capture_loop, line 213: is_recording is false, the loop ends
CaptureExit ==
    /\ capture_thread.pc = "loop"
    /\ ~vc.is_recording
    /\ capture_thread' = [capture_thread EXCEPT !.pc = "done"]
    /\ UNCHANGED <<vc, frame_queue, write_thread, sink_frames, grabbed, put_failed>>

\* _write_loop, lines 246-248 and 263-264: the loop condition, then get();
\* on an empty queue get() raises queue.Empty after its timeout and the
\* loop goes round
WriteGet ==
    /\ write_thread.pc = "loop"
    /\ vc.is_recording \/ frame_queue # <<>>
    /\ frame_queue # <<>>
    /\ LET r == QueueGet(frame_queue)
       IN  /\ frame_queue' = r.queue
           /\ write_thread' = [write_thread EXCEPT !.pc = "write", !.frame = r.item]
    /\ UNCHANGED <<vc, capture_thread, sink_frames, grabbed, put_failed>>

\* _write_loop, lines 250-261: the frame goes to the encoder's stdin (which
\* may raise: the loop breaks), or to the VideoWriter, or nowhere when
\* neither is set
WriteFrame(write_ok) ==
    /\ write_thread.pc = "write"
    /\ IF vc.sink = "ffmpeg" /\ ~write_ok
       THEN /\ write_thread' = [write_thread EXCEPT !.pc = "done", !.frame = 0]
            /\ UNCHANGED sink_frames
       ELSE IF vc.sink \in {"ffmpeg", "opencv"}
       THEN /\ sink_frames' = Append(sink_frames, write_thread.frame)
            /\ write_thread' = [pc |-> "loop", frame |-> 0,
                                frame_count |-> write_thread.frame_count + 1]
       ELSE /\ write_thread' = [write_thread EXCEPT !.pc = "loop", !.frame = 0]
            /\ UNCHANGED sink_frames
    /\ UNCHANGED <<vc, frame_queue, capture_thread, grabbed, put_failed>>

\* _write_loop, line 246: not recording and the queue is empty
WriteExit ==
    /\ write_thread.pc = "loop"
    /\ ~vc.is_recording
    /\ frame_queue = <<>>
    /\ write_thread' = [write_thread EXCEPT !.pc = "done"]
    /\ UNCHANGED <<vc, frame_queue, capture_thread, sink_frames, grabbed, put_failed>>

\* VideoCapture.stop_recording, line 338
VideoStopSignal ==
    /\ vc.is_recording
    /\ vc' = [vc EXCEPT !.is_recording = FALSE, !.stopping = TRUE]
    /\ UNCHANGED <<frame_queue, capture_thread, write_thread, sink_frames,
                   grabbed, put_failed>>

\* VideoCapture.stop_recording, lines 341-358: each join returns when its
\* thread has ended or after 5 seconds; then the sink is closed
VideoStopClose ==
    /\ vc.stopping
    /\ vc' = [vc EXCEPT !.stopping = FALSE, !.sink = "none"]
    /\ UNCHANGED <<frame_queue, capture_thread, write_thread, sink_frames,
                   grabbed, put_failed>>

\* ---- the writer and the close of the sink, statement by statement -------
\* _write_loop, lines 250 and 258: "if self.ffmpeg_process:" / "elif
\* self.video_writer:" read the attribute; with neither set the frame is
\* dropped and the loop goes round
WriteCheck ==
    /\ write_thread.pc = "write"
    /\ write_thread' =
            IF vc.sink = "ffmpeg" THEN [write_thread EXCEPT !.pc = "write_pipe"]
            ELSE IF vc.sink = "opencv"
            THEN [write_thread EXCEPT !.pc = "write_codec"]
            ELSE [write_thread EXCEPT !.pc = "loop", !.frame = 0]
    /\ UNCHANGED <<vc, frame_queue, capture_thread, sink_frames, grabbed,
                   put_failed>>

\* _write_loop, lines 253 and 260: self.ffmpeg_process.stdin.write(...) or
\* self.video_writer.write(frame), the attribute being read again.  On a
\* closed pipe the write raises ValueError and the loop breaks (lines
\* 255-257); a released VideoWriter takes the call and stores nothing; an
\* attribute that is None by now raises AttributeError, which ends the loop
WriteCall ==
    /\ write_thread.pc \in {"write_pipe", "write_codec"}
    /\ IF vc.sink = "none"
       THEN /\ write_thread' = [write_thread EXCEPT !.pc = "done", !.frame = 0]
            /\ UNCHANGED <<vc, sink_frames>>
       ELSE IF vc.sink_closed
       THEN /\ vc' = [vc EXCEPT !.late_writes = @ + 1]
            /\ write_thread' =
                    IF write_thread.pc = "write_pipe"
                    THEN [write_thread EXCEPT !.pc = "done", !.frame = 0]
                    ELSE [write_thread EXCEPT !.pc = "loop", !.frame = 0,
                                              !.frame_count = @ + 1]
            /\ UNCHANGED sink_frames
       ELSE /\ sink_frames' = Append(sink_frames, write_thread.frame)
            /\ write_thread' = [write_thread EXCEPT !.pc = "loop", !.frame = 0,
                                                    !.frame_count = @ + 1]
            /\ UNCHANGED vc
    /\ UNCHANGED <<frame_queue, capture_thread, grabbed, put_failed>>

\* VideoCapture.stop_recording, lines 341-349 and 356-357: the joins have
\* returned (the threads ended, or 5 seconds passed); stdin.close() or
\* video_writer.release()
VideoStopCloseSink ==
    /\ vc.stopping
    /\ ~vc.sink_closed
    /\ vc' = [vc EXCEPT !.sink_closed = TRUE]
    /\ UNCHANGED <<frame_queue, capture_thread, write_thread, sink_frames,
                   grabbed, put_failed>>

\* VideoCapture.stop_recording, lines 350-351 and 358: the encoder has
\* exited, self.ffmpeg_process = None; self.video_writer = None
VideoStopForget ==
    /\ vc.stopping
    /\ vc.sink_closed
    /\ vc' = [vc EXCEPT !.stopping = FALSE, !.sink = "none"]
    /\ UNCHANGED <<frame_queue, capture_thread, write_thread, sink_frames,
                   grabbed, put_failed>>

\* VideoCapture.start_recording (lines 268-330) called again on a
\* VideoCapture whose stop_recording has returned: new threads are started
\* and assigned to self.capture_thread and self.write_thread, whatever has
\* become of the threads that were there.  The threads of this second
\* recording are followed only as running or ended.
VideoRestart(outcome) ==
    /\ ~vc.is_recording
    /\ ~vc.stopping
    /\ capture_thread.pc # "none"
    /\ vc.capture2 = "none"
    /\ LET r == VideoStartRecording([is_recording |-> vc.is_recording,
                                     sink |-> vc.sink, threads |-> "none"],
                                    outcome)
       IN  vc' = [vc EXCEPT !.is_recording = r.obj.is_recording,
                            !.sink = r.obj.sink,
                            !.capture2 = IF r.ok THEN "loop" ELSE "none",
                            !.writer2 = IF r.ok THEN "loop" ELSE "none"]
    /\ UNCHANGED <<frame_queue, capture_thread, write_thread, sink_frames,
                   grabbed, put_failed>>

\* the loops of the second recording's threads end once is_recording is
\* False (lines 213 and 246)
SecondTasksExit ==
    /\ vc.capture2 = "loop"
    /\ ~vc.is_recording
    /\ vc' = [vc EXCEPT !.capture2 = "done", !.writer2 = "done"]
    /\ UNCHANGED <<frame_queue, capture_thread, write_thread, sink_frames,
                   grabbed, put_failed>>

\* ------------------------------------------------------------------------
\* Further state: the other tables of the store, and the calls and tasks
\* that are followed step by step
\* ------------------------------------------------------------------------
VARIABLES
    frame_timestamps,  \* the frame_timestamps table, rows in insertion order
    session_health,    \* the session_health table, rows in insertion order
    batch_call,        \* the add_input_events_batch call that ended last
    hook_threads,      \* the keyboard and mouse listener threads' callbacks
    stopper,           \* a stop_recording call followed step by step
    video_start        \* the VideoCapture.start_recording call that ended last

auxVars == <<frame_timestamps, session_health, batch_call, hook_threads,
             stopper, video_start>>

HookNames == {"keyboard", "mouse"}

\* a listener thread's callback: the recorder it belongs to and the event
\* it has built but not yet appended
IdleHook == [pc |-> "idle", o |-> 0, event |-> NULL]

\* a recording's spawned tasks and the stop_recording call that ends it:
\* capture, writer, gamepad are threads ("none" when not spawned), encoder is
\* the ffmpeg process, abandoned the tasks whose join or wait timed out
IdleStopper == [pc |-> "idle", sink |-> "none", capture |-> "none",
                writer |-> "none", encoder |-> "none", gamepad |-> "none",
                stdin_closed |-> FALSE, abandoned |-> {}]

InitAux ==
    /\ frame_timestamps = <<>>
    /\ session_health = <<>>
    /\ batch_call = NULL
    /\ hook_threads = [h \in HookNames |-> IdleHook]
    /\ stopper = IdleStopper
    /\ video_start = NULL

\* ------------------------------------------------------------------------
\* Event store: input events written through the DatabaseManager itself
\* ------------------------------------------------------------------------
\* events in one add_input_events_batch call; rows in input_events and in
\* action_codes
MaxBatch == 2
MaxStoreRows == 2

Actions == {"press", "release"}

\* InputEvent objects handed to the store
StoreEvents ==
    [session_id : {1}, timestamp_ms : {0}, input_device : InputDevices,
     button_key : RawInputs, action : Actions, value : {NULL},
     x_position : {NULL}, y_position : {NULL}, action_code : {NULL}]

Batches == UNION {[1..n -> StoreEvents] : n \in 0..MaxBatch}

\* INSERT INTO input_events (..., action_code): the table a DatabaseManager
\* creates (CREATE_INPUT_EVENTS_TABLE) has no action_code column, so the
\* statement raises sqlite3.OperationalError until the column is added
InsertEventsIgnoresSchema(migrated) == FALSE
InsertEventsRaises(migrated) == ~migrated

\* DatabaseManager.add_input_events_batch on manager m: the codes are
\* resolved (and committed) event by event, then one executemany and commit
AddInputEventsBatch(m, events) ==
    LET r == ResolveCodes(action_codes, action_code_cache[m], ret_log, events, <<>>)
        raised == InsertEventsRaises(schema_migrated)
    IN  /\ Len(input_events) + Len(events) <= MaxStoreRows
        /\ Len(r.table) <= MaxStoreRows
        /\ action_codes' = r.table
        /\ action_code_cache' = [action_code_cache EXCEPT ![m] = r.cache]
        /\ ret_log' = r.log
        /\ input_events' = IF raised THEN InsertRolledBack(input_events, r.data)
                                      ELSE input_events \o r.data
        /\ batch_call' = Some([n |-> Len(events),
                               rows_before |-> Len(input_events),
                               raised |-> raised])
        /\ UNCHANGED <<db_threads, schema_migrated, sessions, now, cfg, sm,
                       video_objs, audio_objs, input_objs, last_call,
                       frame_timestamps, session_health, hook_threads,
                       stopper, video_start>>

\* ------------------------------------------------------------------------
\* Input callbacks, one statement per step.  pynput runs the keyboard
\* listener and the mouse listener each in a thread of its own; a callback
\* builds the event (reading the clock) and then appends it to self.events.
\* ------------------------------------------------------------------------
\* events the two listener threads deliver to one recorder
MaxHookEvents == 2

ListenerRuns(i, h) ==
    IF h = "keyboard" THEN i.keyboard_listener ELSE i.mouse_listener

\* _on_keyboard_press/_on_keyboard_release (lines 61-78) and _on_mouse_click
\* (lines 112-123): the is_recording check and the event dict with its
\* timestamp
HookStamp(h, o, key, action) ==
    /\ o \in 1..Len(input_objs)
    /\ sm.input_capture = Some(o)
    /\ hook_threads[h].pc = "idle"
    /\ ListenerRuns(input_objs[o], h)
    /\ input_objs[o].is_recording
    /\ Len(input_objs[o].events)
         + Cardinality({g \in HookNames : hook_threads[g].pc = "stamped"})
            < MaxHookEvents
    /\ hook_threads' = [hook_threads EXCEPT ![h] =
            [pc |-> "stamped", o |-> o,
             event |-> Some(InputEventDict(
                            get_timestamp_ms(input_objs[o], now), h, key, action,
                            PressValue(action),
                            IF h = "mouse" THEN Some(0) ELSE NULL,
                            IF h = "mouse" THEN Some(0) ELSE NULL))]]
    /\ UNCHANGED <<frame_timestamps, session_health, batch_call, stopper,
                   video_start, sessVars>>

\* self.events.append(event) (lines 80, 105, 125)
HookAppend(h) ==
    /\ hook_threads[h].pc = "stamped"
    /\ input_objs' = [input_objs EXCEPT
            ![hook_threads[h].o].events = DequeAppend(@, hook_threads[h].event[1]),
            ![hook_threads[h].o].others_delivered = @ + 1]
    /\ hook_threads' = [hook_threads EXCEPT ![h] = IdleHook]
    /\ UNCHANGED <<frame_timestamps, session_health, batch_call, stopper,
                   video_start, schema_migrated, sessions, input_events, now,
                   cfg, sm, video_objs, audio_objs, last_call>>

\* a running audio stream of AudioCapture o delivers a block
OnSystemAudio(o) ==
    /\ o \in 1..Len(audio_objs)
    /\ audio_objs[o].system_stream
    /\ audio_objs[o].system_delivered + audio_objs[o].mic_delivered < MaxSamples
    /\ audio_objs' = [audio_objs EXCEPT ![o] = SystemAudioCallback(@)]
    /\ UNCHANGED <<schema_migrated, sessions, input_events, now, cfg, sm,
                   video_objs, input_objs, last_call>>

OnMicrophoneAudio(o) ==
    /\ o \in 1..Len(audio_objs)
    /\ audio_objs[o].mic_stream
    /\ audio_objs[o].system_delivered + audio_objs[o].mic_delivered < MaxSamples
    /\ audio_objs' = [audio_objs EXCEPT ![o] = MicrophoneCallback(@)]
    /\ UNCHANGED <<schema_migrated, sessions, input_events, now, cfg, sm,
                   video_objs, input_objs, last_call>>

\* ------------------------------------------------------------------------
\* stop_recording followed step by step: SessionManager.stop_recording calls
\* VideoCapture.stop_recording (two joins, the encoder's stdin.close() and
\* wait(), the writer's release()), AudioCapture.stop_recording and
\* InputCapture.stop_recording (the gamepad join), then saves and returns.
\* The spawned tasks and the encoder run on their own and may never exit.
\* ------------------------------------------------------------------------
StopperSet(f, v) == stopper' = [stopper EXCEPT ![f] = v]

StopperFrame == UNCHANGED <<dbVars, sessVars, vidVars, frame_timestamps,
                            session_health, batch_call, hook_threads, video_start>>

\* a recording is running: the video threads, the encoder when the sink is
\* the ffmpeg pipe, the gamepad thread when the input type polls a gamepad
StopperStart(sink, gamepad) ==
    /\ stopper.pc = "idle"
    /\ stopper' = [IdleStopper EXCEPT
                        !.pc = "recording", !.sink = sink,
                        !.capture = "running", !.writer = "running",
                        !.encoder = IF sink = "ffmpeg" THEN "reading" ELSE "none",
                        !.gamepad = IF gamepad THEN "running" ELSE "none"]
    /\ StopperFrame

\* thread.join(timeout=...) returns when the thread has exited or when the
\* timeout has passed, whichever comes first
JoinReturns(task_state) == TRUE

\* ffmpeg_process.stdin is a buffered writer guarded by a lock: close() waits,
\* with no timeout, for a write() in progress on another thread
StdinCloseReturns(writer_state) == writer_state # "in_write"

Abandon(st, task) ==
    IF st[task] \in {"none", "exited"} THEN st.abandoned
    ELSE st.abandoned \cup {task}

\* ---- the tasks ----
\* _capture_loop leaves its while loop once is_recording is False
CaptureTaskExit ==
    /\ stopper.pc \notin {"idle", "recording"}
    /\ stopper.capture = "running"
    /\ StopperSet("capture", "exited")
    /\ StopperFrame

\* _write_loop: ffmpeg_process.stdin.write(frame.tobytes())
WriterBeginWrite ==
    /\ stopper.pc # "idle"
    /\ stopper.writer = "running"
    /\ stopper.sink = "ffmpeg"
    /\ ~stopper.stdin_closed
    /\ StopperSet("writer", "in_write")
    /\ StopperFrame

\* the write returns when the encoder has read the frame from the pipe, and
\* raises (the loop breaks) when the encoder is gone
WriterEndWrite ==
    /\ stopper.writer = "in_write"
    /\ stopper.encoder \in {"reading", "exited"}
    /\ StopperSet("writer", IF stopper.encoder = "exited" THEN "exited" ELSE "running")
    /\ StopperFrame

\* _write_loop leaves its while loop once is_recording is False and the
\* queue is empty
WriterTaskExit ==
    /\ stopper.pc \notin {"idle", "recording"}
    /\ stopper.writer = "running"
    /\ StopperSet("writer", "exited")
    /\ StopperFrame

\* the encoder process stops reading its stdin, or exits
EncoderStall ==
    /\ stopper.encoder = "reading"
    /\ StopperSet("encoder", "stalled")
    /\ StopperFrame

EncoderExit ==
    /\ stopper.encoder \in {"reading", "stalled"}
    /\ StopperSet("encoder", "exited")
    /\ StopperFrame

\* _gamepad_loop leaves its while loop once is_recording is False
GamepadTaskExit ==
    /\ stopper.pc \notin {"idle", "recording", "join_capture", "join_writer",
                          "close_stdin", "wait_encoder", "stop_audio"}
    /\ stopper.gamepad = "running"
    /\ StopperSet("gamepad", "exited")
    /\ StopperFrame

\* ---- the stop call ----
\* SessionManager.stop_recording, VideoCapture.stop_recording: is_recording = False
StopBegin ==
    /\ stopper.pc = "recording"
    /\ StopperSet("pc", "join_capture")
    /\ StopperFrame

\* self.capture_thread.join(timeout=5.0)
JoinCapture ==
    /\ stopper.pc = "join_capture"
    /\ JoinReturns(stopper.capture)
    /\ stopper' = [stopper EXCEPT !.pc = "join_writer",
                                  !.abandoned = Abandon(stopper, "capture")]
    /\ StopperFrame

\* self.write_thread.join(timeout=5.0)
JoinWriter ==
    /\ stopper.pc = "join_writer"
    /\ JoinReturns(stopper.writer)
    /\ stopper' = [stopper EXCEPT
                        !.pc = IF stopper.sink = "ffmpeg" THEN "close_stdin"
                               ELSE "stop_audio",
                        !.abandoned = Abandon(stopper, "writer")]
    /\ StopperFrame

\* self.ffmpeg_process.stdin.close()
CloseEncoderStdin ==
    /\ stopper.pc = "close_stdin"
    /\ StdinCloseReturns(stopper.writer)
    /\ stopper' = [stopper EXCEPT !.pc = "wait_encoder", !.stdin_closed = TRUE]
    /\ StopperFrame

\* self.ffmpeg_process.wait(timeout=5.0), TimeoutExpired caught
WaitEncoder ==
    /\ stopper.pc = "wait_encoder"
    /\ JoinReturns(stopper.encoder)
    /\ stopper' = [stopper EXCEPT !.pc = "stop_audio",
                                  !.abandoned = Abandon(stopper, "encoder")]
    /\ StopperFrame

\* video_writer.release(), then AudioCapture.stop_recording
StopAudio ==
    /\ stopper.pc = "stop_audio"
    /\ StopperSet("pc", "join_gamepad")
    /\ StopperFrame

\* InputCapture.stop_recording: self.gamepad_thread.join(timeout=2.0)
JoinGamepad ==
    /\ stopper.pc = "join_gamepad"
    /\ JoinReturns(stopper.gamepad)
    /\ stopper' = [stopper EXCEPT !.pc = "save",
                                  !.abandoned = Abandon(stopper, "gamepad")]
    /\ StopperFrame

\* the batches and the session row are saved; stop_recording returns
StopReturn ==
    /\ stopper.pc = "save"
    /\ StopperSet("pc", "returned")
    /\ StopperFrame

StopperStep ==
    \/ StopBegin
    \/ JoinCapture
    \/ JoinWriter
    \/ CloseEncoderStdin
    \/ WaitEncoder
    \/ StopAudio
    \/ JoinGamepad
    \/ StopReturn

\* ------------------------------------------------------------------------
\* DatabaseManager: the tables that reference sessions(id), and delete_session
\* ------------------------------------------------------------------------
MaxStoredSessions == 2
MaxDependentRows == 1

\* every method opens its own connection with sqlite3.connect(self.db_path)
\* and never issues PRAGMA foreign_keys = ON, so the connection has SQLite's
\* default: the FOREIGN KEY ... ON DELETE CASCADE clauses are not enforced
ForeignKeysEnforced == FALSE

StoredSessionIds == {k \in DOMAIN sessions : sessions[k].id = Some(k)}

WithoutSession(rows, session_id) ==
    SelectSeq(rows, LAMBDA r : r.session_id # session_id)

Cascade(rows, session_id) ==
    IF ForeignKeysEnforced THEN WithoutSession(rows, session_id) ELSE rows

DependentFrame == UNCHANGED <<dbVars, vidVars, schema_migrated, now, cfg, sm,
                              video_objs, audio_objs, input_objs, last_call,
                              batch_call, hook_threads, stopper, video_start>>

\* DatabaseManager.create_session called on the store
DbCreateSession ==
    /\ Len(sessions) < MaxStoredSessions
    /\ schema_migrated
    /\ sessions' = create_session(sessions, NewSession(now))
    /\ UNCHANGED <<input_events, frame_timestamps, session_health>>
    /\ DependentFrame

\* DatabaseManager.add_frame_timestamp
AddFrameTimestamp(session_id) ==
    /\ session_id \in StoredSessionIds
    /\ Len(frame_timestamps) < MaxDependentRows
    /\ frame_timestamps' = Append(frame_timestamps,
            [session_id |-> session_id, frame_number |-> Len(frame_timestamps)])
    /\ UNCHANGED <<sessions, input_events, session_health>>
    /\ DependentFrame

\* DatabaseManager.add_health_check
AddHealthCheck(session_id) ==
    /\ session_id \in StoredSessionIds
    /\ Len(session_health) < MaxDependentRows
    /\ session_health' = Append(session_health,
            [session_id |-> session_id, check_time |-> now])
    /\ UNCHANGED <<sessions, input_events, frame_timestamps>>
    /\ DependentFrame

\* DatabaseManager.delete_session
DeleteSession(session_id) ==
    /\ session_id \in StoredSessionIds
    /\ sessions' = delete_session(sessions, session_id)
    /\ input_events' = Cascade(input_events, session_id)
    /\ frame_timestamps' = Cascade(frame_timestamps, session_id)
    /\ session_health' = Cascade(session_health, session_id)
    /\ DependentFrame

\* ------------------------------------------------------------------------
\* VideoCapture.start_recording by codec: the choice of the sink
\* ------------------------------------------------------------------------
\* frames the source produces in a recording that is followed from its start
MaxStartFrames == 2

Codecs == {"h264", "h265", "mp4v", "mjpeg", "raw"}

\* _use_ffmpeg_compression
UseFfmpegCompression(codec) == codec \in {"h264", "h265"}

\* the codec after the try/except around _start_ffmpeg_process: Popen raised
\* and the except branch set self.codec = 'mp4v'
CodecAfterEncoderStart(codec, encoder_starts) ==
    IF UseFfmpegCompression(codec) /\ ~encoder_starts THEN "mp4v" ELSE codec

\* lines 283-310: self.ffmpeg_process is set when Popen returned; otherwise
\* the cv2.VideoWriter is built and the start fails only if it is not opened
StartOutcomeNoFallback(codec, encoder_starts, writer_opens) ==
    IF UseFfmpegCompression(codec)
    THEN IF encoder_starts THEN "ffmpeg" ELSE "fail"
    ELSE IF writer_opens THEN "opencv" ELSE "fail"
StartOutcome(codec, encoder_starts, writer_opens) ==
    IF UseFfmpegCompression(codec) /\ encoder_starts THEN "ffmpeg"
    ELSE IF writer_opens THEN "opencv"
    ELSE "fail"

\* os.path.join(self.session_path, "video.avi"): the path start_recording
\* stores in the session row and hands to the VideoCapture, as root and
\* extension
SessionVideoPath == [root |-> "video", ext |-> ".avi"]

\* _start_ffmpeg_process, lines 135-139, reached for h264 and h265 before
\* Popen is called: self.output_path gets the extension .mp4
OutputPathAfterStart(codec, path) ==
    IF UseFfmpegCompression(codec) /\ path.ext # ".mp4"
    THEN [path EXCEPT !.ext = ".mp4"]
    ELSE path

\* VideoCapture.start_recording with the configured codec
VideoStartCodec(codec, encoder_starts, writer_opens) ==
    /\ VideoStart(StartOutcome(codec, encoder_starts, writer_opens))
    /\ video_start' = Some([codec |-> codec,
                            encoder_starts |-> encoder_starts,
                            writer_opens |-> writer_opens,
                            codec_after |-> CodecAfterEncoderStart(codec, encoder_starts),
                            sink |-> vc'.sink,
                            video_path |-> SessionVideoPath,
                            output_path |-> OutputPathAfterStart(codec,
                                                SessionVideoPath),
                            ok |-> vc'.is_recording])
    /\ UNCHANGED <<frame_timestamps, session_health, batch_call, hook_threads, stopper>>

vars == <<dbVars, sessVars, vidVars, auxVars>>

Init == InitDb /\ InitSession /\ InitVideo /\ InitAux

\* the event store alone: one migrated store, no orchestrator activity
InitStore ==
    /\ InitDb
    /\ InitSession
    /\ InitVideo
    /\ InitAux
    /\ schema_migrated
    /\ cfg = [input_type |-> "keyboard", capture_system_audio |-> TRUE,
              capture_microphone |-> TRUE, capture_mouse |-> TRUE,
              latency_offset_ms |-> 0]

NextDb ==
    \/ \E m \in Managers : NewDatabaseManager(m) /\ UNCHANGED <<sessVars, vidVars, auxVars>>
    \/ \E m \in Managers, d \in InputDevices, r \in RawInputs :
            get_or_create_action_code(m, d, r) /\ UNCHANGED <<sessVars, vidVars, auxVars>>

SpecDb == InitStore /\ [][NextDb]_vars

NextDbConc ==
    \/ \E t \in Threads, m \in Managers, d \in InputDevices, r \in RawInputs :
            DbCall(t, m, d, r) /\ UNCHANGED <<sessVars, vidVars, auxVars>>
    \/ \E t \in Threads : DbSelect(t) /\ UNCHANGED <<sessVars, vidVars, auxVars>>
    \/ \E t \in Threads : DbSelectMax(t) /\ UNCHANGED <<sessVars, vidVars, auxVars>>
    \/ \E t \in Threads : DbInsert(t) /\ UNCHANGED <<sessVars, vidVars, auxVars>>
    \/ \E t \in Threads : DbCacheWrite(t) /\ UNCHANGED <<sessVars, vidVars, auxVars>>
    \/ \E t \in Threads : DbReturn(t) /\ UNCHANGED <<sessVars, vidVars, auxVars>>

SpecDbConc == InitStore /\ [][NextDbConc]_vars

Next ==
    \/ \E vo \in VideoStartOutcomes, so \in AudioStreamOutcomes,
          mo \in AudioStreamOutcomes, io \in InputStartOutcomes :
            start_recording(vo, so, mo, io) /\ UNCHANGED <<dbVars, vidVars, auxVars>>
    \/ stop_recording /\ UNCHANGED <<db_threads, vidVars, auxVars>>
    \/ \E id \in 1..MaxSessions, e \in Errors :
            MarkSessionFailed(id, e) /\ UNCHANGED <<dbVars, vidVars, auxVars>>
    \/ RunMigration /\ UNCHANGED <<dbVars, vidVars, auxVars>>

\* the orchestrator's lifecycle under every outcome of the component starts
\* (no input events arrive and the clock stands still: see SpecEvents)
Spec == Init /\ [][Next]_vars

\* a keyboard-and-mouse recording on a migrated store whose components all
\* start, with input events arriving
InitEvents ==
    /\ InitStore
    /\ cfg.input_type = "keyboard"

NextEvents ==
    \/ start_recording("ffmpeg", "ok", "ok", "ok") /\ UNCHANGED <<dbVars, vidVars, auxVars>>
    \/ stop_recording /\ UNCHANGED <<db_threads, vidVars, auxVars>>
    \/ Tick /\ UNCHANGED <<dbVars, vidVars, auxVars>>
    \/ \E o \in 1..MaxSessions, a \in {"press", "release"} :
            OnKeyboard(o, "w", a) /\ UNCHANGED <<dbVars, vidVars, auxVars>>
    \/ \E o \in 1..MaxSessions :
            OnMouseClick(o, "a", TRUE) /\ UNCHANGED <<dbVars, vidVars, auxVars>>

SpecEvents == InitEvents /\ [][NextEvents]_vars

\* the store used through the methods of one DatabaseManager, which may be
\* constructed anew on the same file, before and after the migration
InitStoreAny == InitDb /\ InitSession /\ InitVideo /\ InitAux
                    /\ cfg.input_type = "keyboard" /\ cfg.capture_mouse
                    /\ cfg.capture_system_audio

NextStore ==
    \/ NewDatabaseManager(1) /\ UNCHANGED <<sessVars, vidVars, auxVars>>
    \/ \E events \in Batches :
            AddInputEventsBatch(1, events) /\ UNCHANGED vidVars
    \/ RunMigration /\ UNCHANGED <<dbVars, vidVars, auxVars>>

SpecStore == InitStoreAny /\ [][NextStore]_vars

\* recordings on a migrated store whose audio streams may fail to start,
\* with key presses arriving, stopped with or without a failing batch insert
NextSinks ==
    \/ \E vo \in {"ffmpeg", "opencv"}, so \in AudioStreamOutcomes,
          mo \in AudioStreamOutcomes :
            start_recording(vo, so, mo, "ok") /\ UNCHANGED <<dbVars, vidVars, auxVars>>
    \/ stop_recording /\ UNCHANGED <<db_threads, vidVars, auxVars>>
    \/ \E o \in 1..MaxSessions :
            OnKeyboard(o, "w", "press") /\ UNCHANGED <<dbVars, vidVars, auxVars>>

SpecSinks == InitEvents /\ [][NextSinks]_vars

\* one keyboard-and-mouse recording whose two listener threads run their
\* callbacks concurrently
NextHooks ==
    \/ start_recording("ffmpeg", "ok", "ok", "ok") /\ UNCHANGED <<dbVars, vidVars, auxVars>>
    \/ stop_recording /\ UNCHANGED <<db_threads, vidVars, auxVars>>
    \/ Tick /\ UNCHANGED <<dbVars, vidVars, auxVars>>
    \/ \E o \in 1..MaxSessions, a \in Actions :
            HookStamp("keyboard", o, "w", a) /\ UNCHANGED <<dbVars, vidVars>>
    \/ \E o \in 1..MaxSessions, a \in Actions :
            HookStamp("mouse", o, "a", a) /\ UNCHANGED <<dbVars, vidVars>>
    \/ \E h \in HookNames : HookAppend(h) /\ UNCHANGED <<dbVars, vidVars>>

SpecHooks == InitEvents /\ [][NextHooks]_vars

\* recordings with both audio streams configured, every outcome of the two
\* stream starts, and blocks of samples arriving
NextAudio ==
    \/ \E so \in AudioStreamOutcomes, mo \in AudioStreamOutcomes :
            start_recording("ffmpeg", so, mo, "ok") /\ UNCHANGED <<dbVars, vidVars, auxVars>>
    \/ stop_recording /\ UNCHANGED <<db_threads, vidVars, auxVars>>
    \/ \E o \in 1..MaxSessions :
            OnSystemAudio(o) /\ UNCHANGED <<dbVars, vidVars, auxVars>>
    \/ \E o \in 1..MaxSessions :
            OnMicrophoneAudio(o) /\ UNCHANGED <<dbVars, vidVars, auxVars>>

SpecAudio == InitEvents /\ [][NextAudio]_vars

\* one recording's tasks and its stop call. The main thread runs the stop
\* call to its end whenever its next step can be taken, and gets the pipe's
\* lock if the writer keeps releasing it; a write on the pipe ends once the
\* encoder reads or is gone. Whether the tasks leave their loops and whether
\* the encoder keeps reading is under no obligation.
NextStop ==
    \/ \E sink \in {"ffmpeg", "opencv"}, gamepad \in BOOLEAN : StopperStart(sink, gamepad)
    \/ CaptureTaskExit
    \/ WriterBeginWrite
    \/ WriterEndWrite
    \/ WriterTaskExit
    \/ EncoderStall
    \/ EncoderExit
    \/ GamepadTaskExit
    \/ StopBegin
    \/ JoinCapture
    \/ JoinWriter
    \/ CloseEncoderStdin
    \/ WaitEncoder
    \/ StopAudio
    \/ JoinGamepad
    \/ StopReturn

SpecStopFair ==
    /\ InitEvents
    /\ [][NextStop]_vars
    /\ WF_vars(StopperStep)
    /\ SF_vars(CloseEncoderStdin)
    /\ WF_vars(WriterEndWrite)

\* the store used directly: sessions created, dependent rows added, sessions
\* deleted
NextDelete ==
    \/ NewDatabaseManager(1) /\ UNCHANGED <<sessVars, vidVars, auxVars>>
    \/ DbCreateSession
    \/ \E events \in Batches :
            /\ 1 \in StoredSessionIds
            /\ AddInputEventsBatch(1, events)
            /\ UNCHANGED vidVars
    \/ \E k \in 1..MaxStoredSessions : AddFrameTimestamp(k)
    \/ \E k \in 1..MaxStoredSessions : AddHealthCheck(k)
    \/ \E k \in 1..MaxStoredSessions : DeleteSession(k)

SpecDelete == InitEvents /\ [][NextDelete]_vars

\* one VideoCapture followed from start_recording with its codec, through a
\* few frames, to stop_recording
NextVideoStart ==
    \/ \E codec \in Codecs, encoder_starts \in BOOLEAN, writer_opens \in BOOLEAN :
            /\ VideoStartCodec(codec, encoder_starts, writer_opens)
            /\ UNCHANGED <<dbVars, sessVars>>
    \/ CaptureGrabUpTo(MaxStartFrames) /\ UNCHANGED <<dbVars, sessVars, auxVars>>
    \/ CapturePut /\ UNCHANGED <<dbVars, sessVars, auxVars>>
    \/ CaptureExit /\ UNCHANGED <<dbVars, sessVars, auxVars>>
    \/ WriteGet /\ UNCHANGED <<dbVars, sessVars, auxVars>>
    \/ \E write_ok \in BOOLEAN :
            WriteFrame(write_ok) /\ UNCHANGED <<dbVars, sessVars, auxVars>>
    \/ WriteExit /\ UNCHANGED <<dbVars, sessVars, auxVars>>
    \/ VideoStopSignal /\ UNCHANGED <<dbVars, sessVars, auxVars>>
    \/ VideoStopClose /\ UNCHANGED <<dbVars, sessVars, auxVars>>

SpecVideoStart == InitStore /\ [][NextVideoStart]_vars

\* one VideoCapture whose sink accepts every write and whose stop_recording
\* finds both threads ended when its joins return
NextDrain ==
    \/ \E outcome \in VideoStartOutcomes :
            VideoStart(outcome) /\ UNCHANGED <<dbVars, sessVars, auxVars>>
    \/ CaptureGrabUpTo(MaxStartFrames) /\ UNCHANGED <<dbVars, sessVars, auxVars>>
    \/ CapturePut /\ UNCHANGED <<dbVars, sessVars, auxVars>>
    \/ CaptureExit /\ UNCHANGED <<dbVars, sessVars, auxVars>>
    \/ WriteGet /\ UNCHANGED <<dbVars, sessVars, auxVars>>
    \/ WriteFrame(TRUE) /\ UNCHANGED <<dbVars, sessVars, auxVars>>
    \/ WriteExit /\ UNCHANGED <<dbVars, sessVars, auxVars>>
    \/ VideoStopSignal /\ UNCHANGED <<dbVars, sessVars, auxVars>>
    \/ /\ capture_thread.pc = "done"
       /\ write_thread.pc = "done"
       /\ VideoStopClose
       /\ UNCHANGED <<dbVars, sessVars, auxVars>>

SpecDrain == InitStore /\ [][NextDrain]_vars

\* one VideoCapture whose grabs may fail, with the capture loop's clock
NextGrab ==
    \/ \E outcome \in VideoStartOutcomes :
            VideoStart(outcome) /\ UNCHANGED <<dbVars, sessVars, auxVars>>
    \/ \E grab_ok \in BOOLEAN :
            CaptureGrabTimed(grab_ok) /\ UNCHANGED <<dbVars, sessVars, auxVars>>
    \/ CaptureSleep /\ UNCHANGED <<dbVars, vidVars, auxVars>>
    \/ CapturePut /\ UNCHANGED <<dbVars, sessVars, auxVars>>
    \/ CaptureExit /\ UNCHANGED <<dbVars, sessVars, auxVars>>
    \/ WriteGet /\ UNCHANGED <<dbVars, sessVars, auxVars>>
    \/ WriteFrame(TRUE) /\ UNCHANGED <<dbVars, sessVars, auxVars>>
    \/ WriteExit /\ UNCHANGED <<dbVars, sessVars, auxVars>>
    \/ VideoStopSignal /\ UNCHANGED <<dbVars, sessVars, auxVars>>
    \/ VideoStopClose /\ UNCHANGED <<dbVars, sessVars, auxVars>>

SpecGrab == InitStore /\ [][NextGrab]_vars

\* a gamepad recording: the polling thread in every environment, reads that
\* succeed or fail, and the orchestrator's stop
InitGamepad == Init /\ schema_migrated /\ cfg.input_type = "xbox"

NextGamepad ==
    \/ \E io \in {"ok", "first_fail"} :
            start_recording("ffmpeg", "ok", "ok", io) /\ UNCHANGED <<dbVars, vidVars, auxVars>>
    \/ stop_recording /\ UNCHANGED <<db_threads, vidVars, auxVars>>
    \/ \E o \in 1..MaxSessions, env \in GamepadEnvironments :
            GamepadLoopStart(o, env) /\ UNCHANGED <<dbVars, vidVars, auxVars>>
    \/ \E o \in 1..MaxSessions, outcome \in GamepadReadOutcomes :
            GamepadRead(o, outcome) /\ UNCHANGED <<dbVars, vidVars, auxVars>>
    \/ \E o \in 1..MaxSessions :
            GamepadBackoffEnds(o) /\ UNCHANGED <<dbVars, vidVars, auxVars>>
    \/ \E o \in 1..MaxSessions :
            GamepadLoopExit(o) /\ UNCHANGED <<dbVars, vidVars, auxVars>>

SpecGamepad == InitGamepad /\ [][NextGamepad]_vars

\* one VideoCapture whose writer and whose stop_recording are followed
\* statement by statement
NextClose ==
    \/ \E outcome \in VideoStartOutcomes :
            VideoStart(outcome) /\ UNCHANGED <<dbVars, sessVars, auxVars>>
    \/ CaptureGrabUpTo(MaxStartFrames) /\ UNCHANGED <<dbVars, sessVars, auxVars>>
    \/ CapturePut /\ UNCHANGED <<dbVars, sessVars, auxVars>>
    \/ CaptureExit /\ UNCHANGED <<dbVars, sessVars, auxVars>>
    \/ WriteGet /\ UNCHANGED <<dbVars, sessVars, auxVars>>
    \/ WriteCheck /\ UNCHANGED <<dbVars, sessVars, auxVars>>
    \/ WriteCall /\ UNCHANGED <<dbVars, sessVars, auxVars>>
    \/ WriteExit /\ UNCHANGED <<dbVars, sessVars, auxVars>>
    \/ VideoStopSignal /\ UNCHANGED <<dbVars, sessVars, auxVars>>
    \/ VideoStopCloseSink /\ UNCHANGED <<dbVars, sessVars, auxVars>>
    \/ VideoStopForget /\ UNCHANGED <<dbVars, sessVars, auxVars>>

SpecClose == InitStore /\ [][NextClose]_vars

\* start_recording called by several threads on one idle orchestrator
NextStartConc ==
    \/ \E c \in Callers :
            StartCallCheck(c) /\ UNCHANGED <<dbVars, vidVars, auxVars>>
    \/ \E c \in Callers :
            StartCallCreate(c) /\ UNCHANGED <<dbVars, vidVars, auxVars>>
    \/ \E c \in Callers, vo \in VideoStartOutcomes, io \in InputStartOutcomes :
            StartCallComponents(c, vo, io) /\ UNCHANGED <<dbVars, vidVars, auxVars>>

SpecStartConc == InitEvents /\ [][NextStartConc]_vars

\* one VideoCapture started, stopped and started again
NextRestart ==
    \/ \E outcome \in VideoStartOutcomes :
            VideoStart(outcome) /\ UNCHANGED <<dbVars, sessVars, auxVars>>
    \/ CaptureGrabUpTo(MaxStartFrames) /\ UNCHANGED <<dbVars, sessVars, auxVars>>
    \/ CapturePut /\ UNCHANGED <<dbVars, sessVars, auxVars>>
    \/ CaptureExit /\ UNCHANGED <<dbVars, sessVars, auxVars>>
    \/ WriteGet /\ UNCHANGED <<dbVars, sessVars, auxVars>>
    \/ WriteFrame(TRUE) /\ UNCHANGED <<dbVars, sessVars, auxVars>>
    \/ WriteExit /\ UNCHANGED <<dbVars, sessVars, auxVars>>
    \/ VideoStopSignal /\ UNCHANGED <<dbVars, sessVars, auxVars>>
    \/ VideoStopClose /\ UNCHANGED <<dbVars, sessVars, auxVars>>
    \/ \E outcome \in VideoStartOutcomes :
            VideoRestart(outcome) /\ UNCHANGED <<dbVars, sessVars, auxVars>>
    \/ SecondTasksExit /\ UNCHANGED <<dbVars, sessVars, auxVars>>

SpecRestart == InitStore /\ [][NextRestart]_vars

\* a keyboard-and-mouse recording with pointer moves and scrolls arriving
NextMoves ==
    \/ start_recording("ffmpeg", "ok", "ok", "ok") /\ UNCHANGED <<dbVars, vidVars, auxVars>>
    \/ stop_recording /\ UNCHANGED <<db_threads, vidVars, auxVars>>
    \/ \E o \in 1..MaxSessions :
            OnMouseMove(o) /\ UNCHANGED <<dbVars, vidVars, auxVars>>
    \/ \E o \in 1..MaxSessions :
            OnMouseScroll(o, 1) /\ UNCHANGED <<dbVars, vidVars, auxVars>>

SpecMoves == InitEvents /\ [][NextMoves]_vars

\* one recorder from its start to its stop, the k-th scroll carrying dy = k
NextBuffer ==
    \/ /\ ~sm.is_recording
       /\ start_recording("ffmpeg", "ok", "ok", "ok")
       /\ UNCHANGED <<dbVars, vidVars, auxVars>>
    \/ \E o \in 1..MaxSessions :
            /\ o \in 1..Len(input_objs)
            /\ OnMouseScroll(o, input_objs[o].others_delivered + 1)
            /\ UNCHANGED <<dbVars, vidVars, auxVars>>
    \/ \E o \in 1..MaxSessions, n \in BurstSizes :
            OnMouseScrollBurst(o, n) /\ UNCHANGED <<dbVars, vidVars, auxVars>>
    \/ \E o \in 1..MaxSessions :
            StopInput(o) /\ UNCHANGED <<dbVars, vidVars, auxVars>>

SpecBuffer == InitEvents /\ [][NextBuffer]_vars

\* the first recording of a store: it collects scrolls, one at a time or a
\* full batch at once, and is stopped
MaxFullBatches == 2
NextPersist ==
    \/ /\ sessions = <<>>
       /\ start_recording("ffmpeg", "ok", "ok", "ok")
       /\ UNCHANGED <<dbVars, vidVars, auxVars>>
    \/ stop_recording /\ UNCHANGED <<db_threads, vidVars, auxVars>>
    \/ \E o \in 1..MaxSessions :
            /\ o \in 1..Len(input_objs)
            /\ OnMouseScroll(o, input_objs[o].others_delivered + 1)
            /\ UNCHANGED <<dbVars, vidVars, auxVars>>
    \/ \E o \in 1..MaxSessions :
            /\ o \in 1..Len(input_objs)
            /\ input_objs[o].others_delivered + batch_size
                    <= MaxFullBatches * batch_size + MaxScrolls
            /\ OnMouseScrollBurst(o, batch_size)
            /\ UNCHANGED <<dbVars, vidVars, auxVars>>

SpecPersist == InitEvents /\ [][NextPersist]_vars

NextVideo ==
    \/ \E outcome \in VideoStartOutcomes :
            VideoStart(outcome) /\ UNCHANGED <<dbVars, sessVars, auxVars>>
    \/ CaptureGrab /\ UNCHANGED <<dbVars, sessVars, auxVars>>
    \/ CapturePut /\ UNCHANGED <<dbVars, sessVars, auxVars>>
    \/ CaptureExit /\ UNCHANGED <<dbVars, sessVars, auxVars>>
    \/ WriteGet /\ UNCHANGED <<dbVars, sessVars, auxVars>>
    \/ \E write_ok \in BOOLEAN :
            WriteFrame(write_ok) /\ UNCHANGED <<dbVars, sessVars, auxVars>>
    \/ WriteExit /\ UNCHANGED <<dbVars, sessVars, auxVars>>
    \/ VideoStopSignal /\ UNCHANGED <<dbVars, sessVars, auxVars>>
    \/ VideoStopClose /\ UNCHANGED <<dbVars, sessVars, auxVars>>

\* one VideoCapture and its two tasks
SpecVideo == InitStore /\ [][NextVideo]_vars

\* ------------------------------------------------------------------------
\* Properties
\* ------------------------------------------------------------------------
RowsOf(input_device, raw_input) ==
    {k \in 1..Len(action_codes) :
        /\ action_codes[k].input_device = input_device
        /\ action_codes[k].raw_input = raw_input}

\* C1: get_or_create_action_code is idempotent and stable.  Over any
\* sequence of calls, through any DatabaseManager instance on the store,
\* all calls for one (input_device, raw_input) return one and the same code,
\* no code is returned for two different pairs, and a stored row is never
\* changed or removed (no code is renumbered).
C1_IdempotentStable ==
    /\ [](/\ \A p \in DOMAIN ret_log : Cardinality(ret_log[p]) <= 1
          /\ \A p, q \in DOMAIN ret_log :
                p # q => ret_log[p] \cap ret_log[q] = {})
    /\ [][\A k \in 1..Len(action_codes) :
            /\ k <= Len(action_codes')
            /\ action_codes'[k] = action_codes[k]]_vars

\* a pair created through one manager and then returned by the other
\* manager, whose cache was empty, with other pairs stored as well
C1_Witness ==
    /\ Len(action_codes) >= 2
    /\ \E p \in DOMAIN ret_log :
        /\ ret_log[p] # {}
        /\ \A m \in Managers : CacheKey(p[1], p[2]) \in DOMAIN action_code_cache[m]

\* C2: two threads that call get_or_create_action_code for one pair, both
\* before a row for the pair exists, both return, with the same code, and
\* exactly one row for the pair is stored.
C2_ConcurrentFirstUse ==
    \A t1, t2 \in Threads :
        (/\ t1 # t2
         /\ db_threads[t1].pc \in {"done", "error"}
         /\ db_threads[t2].pc \in {"done", "error"}
         /\ db_threads[t1].fresh /\ db_threads[t2].fresh
         /\ db_threads[t1].input_device = db_threads[t2].input_device
         /\ db_threads[t1].raw_input = db_threads[t2].raw_input)
        => /\ db_threads[t1].pc = "done"
           /\ db_threads[t2].pc = "done"
           /\ db_threads[t1].result = db_threads[t2].result
           /\ Cardinality(RowsOf(db_threads[t1].input_device,
                                 db_threads[t1].raw_input)) = 1

\* C3: after any sequence of non-concurrent calls the codes of each device
\* class are 0, 1, 2, ... in the order the raw inputs were first seen: the
\* code of a row is the number of earlier rows of its device class.
C3_ContiguousCodes ==
    \A k \in 1..Len(action_codes) :
        action_codes[k].encoded_value =
            Cardinality({j \in 1..(k - 1) :
                action_codes[j].input_device = action_codes[k].input_device})

\* every pair of both device classes has its code
C3_Witness ==
    Len(action_codes) = Cardinality(InputDevices \X RawInputs)

\* C4: a session row has end_time and duration_seconds null while its status
\* is 'recording', and both set once it is 'completed' or 'failed'.
C4_EndTimeInvariant ==
    \A k \in 1..Len(sessions) :
        /\ sessions[k].status = "recording" =>
                sessions[k].end_time = NULL /\ sessions[k].duration_seconds = NULL
        /\ sessions[k].status \in {"completed", "failed"} =>
                sessions[k].end_time # NULL /\ sessions[k].duration_seconds # NULL

\* start_recording has just returned False after inserting a session row
FailedStart ==
    /\ last_call.op = "start_recording"
    /\ last_call.result = "False"
    /\ last_call.session # NULL

\* C5: after a start_recording that failed because the video pipeline or
\* the input recorder did not start, the session row of that call has status
\* 'failed' and the error in notes.
C5_FailedStartMarked ==
    FailedStart =>
        /\ sessions[last_call.session[1]].status = "failed"
        /\ sessions[last_call.session[1]].notes # NULL

\* C6: after a start_recording that failed, nothing the call started is
\* still running: no video thread, audio stream, input hook or gamepad
\* thread, and no component is still marked as recording.
C6_FailedStartTornDown ==
    FailedStart =>
        LET o == last_call.objs[1]
        IN  /\ ~video_objs[o].is_recording
            /\ video_objs[o].threads # "running"
            /\ ~audio_objs[o].is_recording
            /\ ~audio_objs[o].system_stream
            /\ ~audio_objs[o].mic_stream
            /\ ~input_objs[o].is_recording
            /\ ~input_objs[o].keyboard_listener
            /\ ~input_objs[o].mouse_listener
            /\ ~input_objs[o].gamepad_thread

\* C7: start_recording returns True exactly when the video pipeline and the
\* input recorder both started, whatever the audio recorders did, and when
\* it returns True the orchestrator is recording and the session row of the
\* call has status 'recording'.
C7_StartSuccess ==
    [][(last_call' # last_call /\ last_call'.op = "start_recording") =>
        /\ (last_call'.result = "True") <=>
                (last_call'.video_ok /\ last_call'.input_ok)
        /\ last_call'.result = "True" =>
                /\ sm'.is_recording
                /\ sm'.session_id = last_call'.session
                /\ sessions'[last_call'.session[1]].status = "recording"]_vars

\* start_recording returned True although an audio stream did not start
C7_Witness ==
    /\ last_call.op = "start_recording"
    /\ last_call.result = "True"
    /\ ~last_call.audio_ok
    /\ sm.is_recording

\* C8: the dropped-frame counter equals the number of frames that could not
\* be enqueued, and every frame captured is either enqueued or counted as
\* dropped.
C8_DropsCounted ==
    /\ DroppedFrameCounter = put_failed
    /\ capture_thread.pc # "put" =>
            grabbed = capture_thread.frame_count + DroppedFrameCounter

\* C9: the sink receives frames in capture order, none of them twice.
C9_WriteOrder ==
    \A k \in 1..(Len(sink_frames) - 1) : sink_frames[k] < sink_frames[k + 1]

\* the sink has received the frame before and the frame after a dropped one
C9_Witness ==
    /\ put_failed > 0
    /\ \E k \in 1..(Len(sink_frames) - 1) : sink_frames[k + 1] = sink_frames[k] + 2

\* C10: the queue never holds more than QueueCapacity frames; a put on the
\* full queue discards the new frame, leaves the queue as it is and takes
\* the capture task back to its loop; and the capture task is never blocked
\* at the put, whatever the writer does.
C10_DropNewest ==
    /\ [](/\ Len(frame_queue) <= QueueCapacity
          /\ capture_thread.pc = "put" => ENABLED CapturePut)
    /\ [][(/\ capture_thread' # capture_thread
           /\ capture_thread.pc = "put"
           /\ Len(frame_queue) = QueueCapacity)
          => /\ frame_queue' = frame_queue
             /\ capture_thread'.pc = "loop"
             /\ capture_thread'.frame_count = capture_thread.frame_count]_vars

\* the writer has ended, the queue is full, a frame was dropped and the
\* capture task is back in its loop, still recording
C10_Witness ==
    /\ write_thread.pc = "done"
    /\ vc.is_recording
    /\ Len(frame_queue) = QueueCapacity
    /\ put_failed > 0
    /\ capture_thread.pc = "loop"

\* C11: add_input_events_batch on N events adds exactly N rows to
\* input_events, and the action_code of each new row is the id of a stored
\* action_codes row whose (input_device, raw_input) is the event's
\* (input_device, button_key).
C11_BatchAddsRows ==
    /\ batch_call # NULL =>
            Len(input_events) = batch_call[1].rows_before + batch_call[1].n
    /\ \A k \in 1..Len(input_events) :
            /\ input_events[k].action_code # NULL
            /\ \E j \in 1..Len(action_codes) :
                /\ action_codes[j].id = input_events[k].action_code[1]
                /\ action_codes[j].input_device = input_events[k].input_device
                /\ action_codes[j].raw_input = input_events[k].button_key

\* C12: two persisted events have the same action_code exactly when they
\* have the same (input_device, button_key), whatever their action is.
C12_OneCodePerControl ==
    \A i, j \in 1..Len(input_events) :
        (input_events[i].action_code = input_events[j].action_code)
            <=> (/\ input_events[i].input_device = input_events[j].input_device
                 /\ input_events[i].button_key = input_events[j].button_key)

\* a press and a release of one control are stored, by two calls
C12_Witness ==
    /\ batch_call # NULL
    /\ batch_call[1].rows_before > 0
    /\ \E i, j \in 1..Len(input_events) :
        /\ input_events[i].action = "press"
        /\ input_events[j].action = "release"
        /\ input_events[i].input_device = input_events[j].input_device
        /\ input_events[i].button_key = input_events[j].button_key

\* whole seconds nearest to a number of milliseconds
RoundSeconds(ms) == (ms + 500) \div 1000

\* C13 as stated: for every completed session end_time >= start_time and
\* duration_seconds is end_time - start_time rounded to the nearest second.
C13_DurationRounded ==
    \A k \in 1..Len(sessions) :
        sessions[k].status = "completed" =>
            /\ sessions[k].end_time[1] >= sessions[k].start_time
            /\ sessions[k].duration_seconds =
                Some(RoundSeconds(sessions[k].end_time[1] - sessions[k].start_time))

\* C13 as amended: for every completed session end_time >= start_time and
\* duration_seconds is end_time - start_time with the fraction of a second
\* dropped (rounded down).
C13_DurationTruncated ==
    \A k \in 1..Len(sessions) :
        sessions[k].status = "completed" =>
            /\ sessions[k].end_time[1] >= sessions[k].start_time
            /\ sessions[k].duration_seconds =
                Some((sessions[k].end_time[1] - sessions[k].start_time) \div 1000)

\* a completed session that lasted more than half a second beyond a whole
\* number of seconds
C13_Witness ==
    \E k \in 1..Len(sessions) :
        /\ sessions[k].status = "completed"
        /\ (sessions[k].end_time[1] - sessions[k].start_time) % 1000 > 500

\* the stored events of session k
EventsOf(k) == {e \in 1..Len(input_events) : input_events[e].session_id = k}

\* C14: with latency_offset_ms = 0 the timestamp of every stored event of a
\* completed session is at least 0 and less than the session's end_time
\* minus its start_time, in milliseconds.
C14_TimestampBounds ==
    \A k \in 1..Len(sessions) :
        sessions[k].status = "completed" =>
            \A e \in EventsOf(k) :
                /\ input_events[e].timestamp_ms >= 0
                /\ input_events[e].timestamp_ms <
                        sessions[k].end_time[1] - sessions[k].start_time

\* an event taken after the clock has advanced, in a recording that was
\* stopped at the very time of the event
C14_Witness ==
    \E k \in 1..Len(sessions) :
        /\ sessions[k].status = "completed"
        /\ \E e \in EventsOf(k) :
            /\ input_events[e].timestamp_ms > 0
            /\ input_events[e].timestamp_ms + StartElapsedMs =
                    sessions[k].end_time[1] - sessions[k].start_time

\* stop_recording has just raised the error of a batch insert
StopRaised ==
    /\ last_call.op = "stop_recording"
    /\ last_call.result = "raised"

\* C17: when stop_recording raises the error of a batch insert, the video
\* sink and the audio streams and files of the session are already stopped
\* and closed.
C17_RaisedAfterSinksClosed ==
    StopRaised =>
        LET v == video_objs[sm.video_capture[1]]
            a == audio_objs[sm.audio_capture[1]]
        IN  /\ ~v.is_recording
            /\ v.sink = "none"
            /\ ~a.is_recording
            /\ ~a.system_stream /\ ~a.system_file
            /\ ~a.mic_stream /\ ~a.mic_file

\* C15: the timestamps of a session's input events never decrease in
\* insertion order: neither in the recorder's buffer nor in the rows stored
\* for the session, also when the keyboard callback and the mouse callback
\* run concurrently.
C15_TimestampsOrdered ==
    /\ \A o \in 1..Len(input_objs) :
        \A i, j \in 1..Len(input_objs[o].events) :
            i < j => input_objs[o].events[i].timestamp_ms
                        <= input_objs[o].events[j].timestamp_ms
    /\ \A i, j \in 1..Len(input_events) :
        (i < j /\ input_events[i].session_id = input_events[j].session_id)
            => input_events[i].timestamp_ms <= input_events[j].timestamp_ms

\* C16: when one of the two audio streams failed to start and the other
\* started, every block delivered to the callback of the stream that
\* started has been appended to its file.
C16_OtherStreamRecords ==
    \A o \in 1..Len(audio_objs) :
        LET a == audio_objs[o]
        IN  /\ (a.system_stream /\ a.capture_microphone /\ ~a.mic_stream)
                    => a.system_written = a.system_delivered
            /\ (a.mic_stream /\ a.capture_system /\ ~a.system_stream)
                    => a.mic_written = a.mic_delivered

\* C18: a stop_recording call that has begun returns, whatever the spawned
\* tasks and the encoder process do.
C18_StopTerminates ==
    (stopper.pc = "join_capture") ~> (stopper.pc = "returned")

\* C19: once delete_session(id) has run, no input_events, frame_timestamps or
\* session_health row with session_id = id is in the store, and the call
\* leaves the rows of every other session as they were.
DeletedSessionIds == {k \in DOMAIN sessions : sessions[k].status = "deleted"}

C19_DeleteCascades ==
    /\ [](\A k \in DeletedSessionIds :
            /\ WithoutSession(input_events, k) = input_events
            /\ WithoutSession(frame_timestamps, k) = frame_timestamps
            /\ WithoutSession(session_health, k) = session_health)
    /\ [][\A k \in DOMAIN sessions :
            (sessions[k].status # "deleted" /\ sessions'[k].status = "deleted")
            => \A j \in DOMAIN sessions \ {k} :
                /\ sessions'[j] = sessions[j]
                /\ SelectSeq(input_events', LAMBDA r : r.session_id = j)
                        = SelectSeq(input_events, LAMBDA r : r.session_id = j)
                /\ SelectSeq(frame_timestamps', LAMBDA r : r.session_id = j)
                        = SelectSeq(frame_timestamps, LAMBDA r : r.session_id = j)
                /\ SelectSeq(session_health', LAMBDA r : r.session_id = j)
                        = SelectSeq(session_health, LAMBDA r : r.session_id = j)]_vars

\* the start whose codec needed the encoder, whose encoder did not start and
\* whose built-in writer opened
FellBack ==
    /\ video_start # NULL
    /\ UseFfmpegCompression(video_start[1].codec)
    /\ ~video_start[1].encoder_starts
    /\ video_start[1].writer_opens

\* a start with a codec that needs the encoder fails only when the built-in
\* writer does not open; after a fallback the sink is the built-in writer
FallbackStartSucceeds ==
    /\ FellBack => /\ video_start[1].ok
                   /\ video_start[1].sink = "opencv"
                   /\ video_start[1].codec_after = "mp4v"
    /\ (video_start # NULL /\ UseFfmpegCompression(video_start[1].codec)
            /\ ~video_start[1].ok) => ~video_start[1].writer_opens

\* the writer task finishes the frame it dequeued
WriterFinishesFrame == write_thread.pc = "write" /\ write_thread'.pc # "write"

MovesRetained(i) ==
    Cardinality({k \in DOMAIN i.events : i.events[k].action = "move"})

\* C21: of every 10 pointer moves delivered to a recorder exactly one is in
\* its buffer, whatever else the buffer holds.
C21_OneMoveInTen ==
    \A o \in 1..Len(input_objs) :
        input_objs[o].moves_delivered % 10 = 0
            => MovesRetained(input_objs[o]) = input_objs[o].moves_delivered \div 10

\* the key, click and scroll events in a recorder's buffer
OthersRetained(i) == SelectSeq(i.events, LAMBDA e : e.action # "move")

\* every key, click and scroll event delivered to recorder i is in its
\* buffer, in the order of arrival (the k-th of them carries k)
AllOthersInOrder(i) ==
    LET others == OthersRetained(i)
    IN  /\ Len(others) = i.others_delivered
        /\ \A k \in 1..Len(others) : others[k].value = Some(k)

Stopped(i) == ~i.is_recording /\ i.start_time # NULL

\* C22 as stated: the list stop_recording returns holds every key, click and
\* scroll event delivered since start_recording, in the order of arrival,
\* however many there were.
C22_NothingDecimated ==
    \A o \in 1..Len(input_objs) :
        Stopped(input_objs[o]) => AllOthersInOrder(input_objs[o])

\* C22, amended: ... as long as no more events were captured than the buffer
\* holds.
C22_NothingDecimatedWithinCapacity ==
    \A o \in 1..Len(input_objs) :
        (/\ Stopped(input_objs[o])
         /\ input_objs[o].others_delivered + MovesRetained(input_objs[o])
                <= EventBufferCapacity)
            => AllOthersInOrder(input_objs[o])

\* a stopped recorder whose buffer is full, every scroll in it
C22_Witness ==
    \E o \in 1..Len(input_objs) :
        /\ Stopped(input_objs[o])
        /\ input_objs[o].others_delivered = EventBufferCapacity
        /\ Len(input_objs[o].events) = EventBufferCapacity

\* C23: whatever the interleaving of the callers, two rows of one device
\* class never carry the same encoded_value.
C23_CodesUniquePerDevice ==
    \A j, k \in DOMAIN action_codes :
        (j # k /\ action_codes[j].input_device = action_codes[k].input_device)
            => action_codes[j].encoded_value # action_codes[k].encoded_value

\* C24: every value get_or_create_action_code has returned for a pair, and
\* every action_code stored in input_events, is the encoded value that
\* get_action_mapping reports for the pair.
C24_ReturnsEncodedValue ==
    /\ \A p \in DOMAIN ret_log : \A code \in ret_log[p] :
            /\ CacheKey(p[1], p[2]) \in DOMAIN get_action_mapping(action_codes)
            /\ code = get_action_mapping(action_codes)[CacheKey(p[1], p[2])]
    /\ \A e \in 1..Len(input_events) :
            input_events[e].action_code # NULL =>
                input_events[e].action_code[1] =
                    get_action_mapping(action_codes)[
                        CacheKey(input_events[e].input_device,
                                 input_events[e].button_key)]

\* where a stop_recording call is: VideoCapture.stop_recording has been
\* entered, AudioCapture.stop_recording has returned, InputCapture's has
VideoStopBegun == stopper.pc \notin {"idle", "recording"}
AudioStopReturned == stopper.pc \in {"join_gamepad", "save", "returned"}
InputStopReturned == stopper.pc \in {"save", "returned"}

\* C25: stop_recording stops the input recorder first, then the audio
\* recorders, then the video pipeline: the audio recorders are not stopped
\* before the input recorder is, and the video pipeline's stop is not begun
\* before the audio recorders are stopped.
C25_StopsInReverseOrder ==
    /\ AudioStopReturned => InputStopReturned
    /\ VideoStopBegun => AudioStopReturned

\* the stop_recording call that ended last ended normally on a recording
StopCompleted ==
    /\ last_call.op = "stop_recording"
    /\ last_call.result = "None"
    /\ last_call.session # NULL

\* C26: after stop_recording has completed normally the session's row is
\* 'completed' with end_time, duration_seconds, total_frames and
\* file_size_bytes set, and the orchestrator holds no component handle and no
\* current session.
C26_CompletedRowFilled ==
    StopCompleted =>
        LET row == sessions[last_call.session[1]]
        IN  /\ row.status = "completed"
            /\ row.end_time # NULL
            /\ row.duration_seconds # NULL
            /\ row.total_frames # NULL
            /\ row.file_size_bytes # NULL
            /\ sm.video_capture = NULL
            /\ sm.audio_capture = NULL
            /\ sm.input_capture = NULL
            /\ sm.current_session = NULL
            /\ sm.session_id = NULL

\* the list the input recorder returned to the stop_recording call that
\* ended last, and the rows stored for that call's session
Snapshot == input_objs[last_call.objs[1]].events
SessionRows ==
    SelectSeq(input_events, LAMBDA r : r.session_id = last_call.session[1])

\* C27: after stop_recording has completed, the input_events rows of the
\* session are the events of the input recorder's snapshot, one row per
\* event in the same order, with the same timestamp, device, control,
\* action, value and coordinates.
C27_SnapshotPersisted ==
    StopCompleted =>
        LET snap == Snapshot
            rows == SessionRows
        IN  /\ Len(rows) = Len(snap)
            /\ \A k \in 1..Len(snap) :
                /\ rows[k].timestamp_ms = snap[k].timestamp_ms
                /\ rows[k].input_device = snap[k].input_device
                /\ rows[k].button_key = snap[k].button_key
                /\ rows[k].action = snap[k].action
                /\ rows[k].value = snap[k].value
                /\ rows[k].x_position = snap[k].x_position
                /\ rows[k].y_position = snap[k].y_position

\* a completed stop whose snapshot needed more than one batch, the last one
\* not full
C27_Witness ==
    /\ StopCompleted
    /\ Len(Snapshot) > batch_size
    /\ Len(Snapshot) % batch_size # 0
    /\ Len(SessionRows) = Len(Snapshot)

\* C29: when the bulk insert of a batch fails, input_events holds none of
\* that batch's events, and the rows of the batches stored before it by the
\* same stop_recording are still there: the session's rows are the snapshot's
\* first whole batches, and fewer than the snapshot.
C29_BatchAllOrNothing ==
    StopRaised =>
        LET snap == Snapshot
            rows == SessionRows
        IN  /\ Len(rows) % batch_size = 0
            /\ Len(rows) < Len(snap)
            /\ \A k \in 1..Len(rows) :
                /\ rows[k].timestamp_ms = snap[k].timestamp_ms
                /\ rows[k].value = snap[k].value

\* the second batch of a stop_recording failed after the first was stored
C29_Witness ==
    /\ StopRaised
    /\ Len(SessionRows) = batch_size
    /\ Len(Snapshot) > batch_size

\* stop_recording has joined both threads and closed the sink
SinkClosed ==
    /\ capture_thread.pc = "done"
    /\ write_thread.pc = "done"
    /\ ~vc.is_recording
    /\ ~vc.stopping
    /\ vc.sink = "none"

\* C28: when stop_recording has closed the sink, with every write accepted
\* and both threads ended before the joins returned, every frame that was
\* put into the queue has been written to the sink: none is left in the
\* queue, and the sink holds as many frames as were enqueued.
C28_QueueDrained ==
    SinkClosed =>
        /\ frame_queue = <<>>
        /\ Len(sink_frames) = capture_thread.frame_count

\* C30: on a store as DatabaseManager creates it, with no migration run, the
\* tables have every column the statements name, so an
\* add_input_events_batch call does not raise.
C30_FreshStoreAcceptsBatch ==
    (batch_call # NULL /\ ~schema_migrated) => ~batch_call[1].raised

\* the AudioCapture of the recording that the stop_recording call which
\* ended last has stopped
StoppedAudio == audio_objs[last_call.objs[1]]

\* C31: after the orchestrator's stop_recording has called the audio
\* recorder's stop_recording, no stream of that recorder is running and no
\* sink file of it is open, whichever of the two streams had started.
C31_AudioStopReleasesAll ==
    (last_call.op = "stop_recording" /\ last_call.objs # NULL) =>
        /\ ~StoppedAudio.system_stream
        /\ ~StoppedAudio.system_file
        /\ ~StoppedAudio.mic_stream
        /\ ~StoppedAudio.mic_file

\* a step in which a grab was attempted and gave no frame
GrabFailed == grabbed' = grabbed + 1 /\ capture_thread'.frame = 0

\* C32: a grab that fails enqueues nothing, leaves the capture task in its
\* loop and the recording on, and the task attempts the next grab one period
\* later: not before, and as soon as the period has gone by while recording.
C32_GrabErrorSkipsTick ==
    /\ [][GrabFailed =>
            /\ frame_queue' = frame_queue
            /\ capture_thread'.pc = "loop"
            /\ capture_thread'.last_capture = now
            /\ vc' = vc]_vars
    /\ [](\A grab_ok \in BOOLEAN :
            ENABLED CaptureGrabTimed(grab_ok) =>
                now >= capture_thread.last_capture + FrameTimeMs)
    /\ []((/\ capture_thread.pc = "loop"
           /\ vc.is_recording
           /\ grabbed < MaxPeriods
           /\ now >= capture_thread.last_capture + FrameTimeMs)
            => ENABLED CaptureGrabTimed(TRUE))

\* a grab has failed, and a later grab of the same recording gave a frame
\* that was enqueued
C32_Witness ==
    /\ vc.is_recording
    /\ grabbed > capture_thread.frame_count + put_failed
    /\ capture_thread.pc = "loop"
    /\ capture_thread.frame_count > 0
    /\ frame_queue # <<>>
    /\ frame_queue[Len(frame_queue)] > 1

\* C33: while a gamepad recorder whose start_recording returned success is
\* recording, its polling task has not exited.
C33_GamepadTaskKeepsPolling ==
    \A o \in 1..Len(input_objs) :
        (/\ input_objs[o].input_type \in {"xbox", "playstation"}
         /\ input_objs[o].is_recording
         /\ input_objs[o].gamepad_thread)
            => input_objs[o].gamepad_pc # "exited"

\* everything but the record of the call that ended last
LifecycleState ==
    <<schema_migrated, sessions, input_events, cfg, sm, video_objs,
      audio_objs, input_objs, action_codes>>

\* C34: a start_recording call made while recording returns False and
\* changes neither the store nor the orchestrator's session, id, path and
\* handles nor any component; a stop_recording call made while not recording
\* changes nothing either.
C34_ReentrantCallsAreNoOps ==
    /\ [][(/\ sm.is_recording
           /\ last_call' # last_call
           /\ last_call'.op = "start_recording")
            => /\ last_call'.result = "False"
               /\ LifecycleState' = LifecycleState]_vars
    /\ [][(/\ ~sm.is_recording
           /\ last_call' # last_call
           /\ last_call'.op = "stop_recording")
            => LifecycleState' = LifecycleState]_vars

\* start_recording has been called on an orchestrator that was recording
C34_Witness ==
    /\ sm.is_recording
    /\ last_call.op = "start_recording"
    /\ last_call.result = "False"
    /\ Len(sessions) = 1

\* C35: once stop_recording has been called on a recording session, whether
\* it returned or raised, the session's row has status 'completed' or
\* 'failed' and the orchestrator holds no component handle.
C35_StopLeavesRecordingStatus ==
    (last_call.op = "stop_recording" /\ last_call.session # NULL) =>
        /\ sessions[last_call.session[1]].status \in {"completed", "failed"}
        /\ sm.video_capture = NULL
        /\ sm.audio_capture = NULL
        /\ sm.input_capture = NULL

\* a thread that has been started and has not left its loop
InLoop(pc) == pc \notin {"none", "done"}

\* C36: while one VideoCapture is recording, at most one capture task and at
\* most one writer task are in their loops: a task of an earlier recording
\* that outlived its join is not running next to the task of the new one.
C36_OneTaskOfEachKind ==
    vc.is_recording =>
        /\ ~(InLoop(capture_thread.pc) /\ vc.capture2 = "loop")
        /\ ~(InLoop(write_thread.pc) /\ vc.writer2 = "loop")

\* C37: the writer task issues no write on the encoder pipe or the codec
\* writer after stop_recording has closed or released it.
C37_NoWriteAfterClose == vc.late_writes = 0

\* the calls that are past the already-recording check and have not
\* returned, and the calls that returned True
InsideStart == {c \in Callers : sm.callers[c] \in {"checked", "created"}}
StartedTrue == {c \in Callers : sm.callers[c] = "True"}

\* C38: of the start_recording calls issued concurrently on one orchestrator,
\* at most one at a time is past the already-recording check, and at most
\* one starts the recording and returns True.
C38_OneStartPasses ==
    /\ Cardinality(InsideStart) <= 1
    /\ Cardinality(StartedTrue) <= 1

\* C39: when the video pipeline has started, the file it writes is the one
\* whose path start_recording stored in the session row as video_path,
\* whatever the codec.
C39_StoredVideoPathIsWritten ==
    (video_start # NULL /\ video_start[1].ok) =>
        video_start[1].output_path = video_start[1].video_path

\* ---- session persistence round trip --------------------------------------
MaxRoundTripRows == 2

\* datetime.isoformat() as the INSERT and UPDATE parameters apply it, and
\* datetime.fromisoformat() as from_db_row applies it; None stays None
isoformat(t) == IF t = NULL THEN NULL ELSE Some(<<"iso", t[1]>>)
fromisoformat(text) == IF text = NULL THEN NULL ELSE Some(text[1][2])

\* a column the model does not carry (game_name, the paths, input_type, fps,
\* latency_offset_ms, monitor_index)
NotModelled == "-"

\* the tuple SELECT * FROM sessions returns for a stored row of a migrated
\* store: the 14 columns of CREATE_SESSIONS_TABLE in order, then the added
\* columns
SelectRow(row) ==
    <<row.id, NotModelled, isoformat(Some(row.start_time)),
      isoformat(row.end_time), row.duration_seconds, NotModelled,
      NotModelled, NotModelled, NotModelled, NotModelled, NotModelled,
      row.status, NotModelled, row.notes, row.video_width, row.video_height,
      row.video_codec, row.total_frames, row.file_size_bytes>>

\* Session.from_db_row: row[0] .. row[13] (positions 1 .. 14 here) go to the
\* constructor; the five remaining constructor arguments keep their default
\* None
from_db_row(row) ==
    [id |-> row[1], status |-> row[12],
     start_time |-> fromisoformat(row[3])[1],
     end_time |-> fromisoformat(row[4]), duration_seconds |-> row[5],
     notes |-> row[14],
     video_width |-> NULL, video_height |-> NULL, video_codec |-> NULL,
     total_frames |-> NULL, file_size_bytes |-> NULL]

\* DatabaseManager.get_session: SELECT * ... WHERE id = ?, then from_db_row,
\* or None when no row has the id
get_session(table, session_id) ==
    IF \E k \in DOMAIN table : table[k].id = Some(session_id)
    THEN Some(from_db_row(SelectRow(
            table[CHOOSE k \in DOMAIN table : table[k].id = Some(session_id)])))
    ELSE NULL

\* the Session objects handed to create_session and update_session
SessionInputs ==
    {[NewSession(0) EXCEPT !.status = st, !.end_time = e,
                           !.video_width = w, !.video_height = w,
                           !.video_codec = c, !.total_frames = n,
                           !.file_size_bytes = n] :
        st \in {"recording", "completed"}, e \in {NULL, Some(1)},
        w \in {NULL, Some(1)}, c \in {NULL, Some("h264")},
        n \in {NULL, Some(1)}}

CreateSessionCall(s) ==
    /\ Len(sessions) < MaxRoundTripRows
    /\ sessions' = create_session(sessions, s)
    /\ last_call' = [NoCall EXCEPT !.op = "create_session",
                                   !.result = Len(sessions) + 1]
    /\ UNCHANGED <<schema_migrated, input_events, now, cfg, sm, video_objs,
                   audio_objs, input_objs>>

UpdateSessionCall(session_id, s) ==
    /\ session_id \in DOMAIN sessions
    /\ sessions' = update_session(sessions, [s EXCEPT !.id = Some(session_id)])
    /\ last_call' = [NoCall EXCEPT !.op = "update_session"]
    /\ UNCHANGED <<schema_migrated, input_events, now, cfg, sm, video_objs,
                   audio_objs, input_objs>>

GetSessionCall(session_id) ==
    /\ last_call' = [NoCall EXCEPT !.op = "get_session",
                                   !.result = session_id,
                                   !.session = get_session(sessions, session_id)]
    /\ UNCHANGED <<schema_migrated, sessions, input_events, now, cfg, sm,
                   video_objs, audio_objs, input_objs>>

NextRoundTrip ==
    \/ \E s \in SessionInputs :
            CreateSessionCall(s) /\ UNCHANGED <<dbVars, vidVars, auxVars>>
    \/ \E k \in 1..MaxRoundTripRows, s \in SessionInputs :
            UpdateSessionCall(k, s) /\ UNCHANGED <<dbVars, vidVars, auxVars>>
    \/ \E k \in 1..MaxRoundTripRows :
            GetSessionCall(k) /\ UNCHANGED <<dbVars, vidVars, auxVars>>

SpecRoundTrip == InitStore /\ [][NextRoundTrip]_vars

\* C40: the Session get_session returns equals, in every stored field, the
\* Session last written under that id by create_session or update_session
\* (the stored row holds exactly the written values).
C40_SessionRoundTrips ==
    (last_call.op = "get_session" /\ last_call.session # NULL) =>
        last_call.session[1] = sessions[last_call.result]
====
